---- MODULE Spec2Model ----
(***************************************************************************)
(* Model of the USB-CAN adapter scripts of usb-can-tauri (src/python-test): *)
(*  - the vehicle-control payload codec (reverse_parse.py, parse_data.py),  *)
(*  - the adapter configuration commands the scripts write,                 *)
(*  - the buffered serial receiver of loop-c.py.                            *)
(* Bytes are naturals 0..255, byte strings are sequences of bytes, text is  *)
(* a sequence of one-character strings.                                     *)
(***************************************************************************)
EXTENDS Integers, Sequences, FiniteSets, TLC

VARIABLES
    \* ---- vehicle-control codec run (reverse_parse.py / parse_data.py) ----
    gear,               \* argument gear
    velocity,           \* argument linear_velocity_mms
    angle_raw,          \* argument steering_angle_raw
    alive,              \* argument alive_counter
    hex_string,         \* what build_vehicle_control_data returned / raised
    data_bytes,         \* the bytes handed to parse_vehicle_control_data
    result,             \* what parse_vehicle_control_data returned / raised
    cpc,                \* position of the codec run
    \* ---- serial session (configuration command, buffered receiver) -------
    script,             \* which script is running
    mpc,                \* position of the script's main()
    written,            \* byte strings written to the serial port, in order
    stream,             \* the bytes the adapter sends to the host
    pos,                \* how many bytes of stream the receiver has read
    buffer,             \* custom_receiver's local buffer
    log,                \* frame windows handed to parse_can_frame, with result
    rpc,                \* position of custom_receiver
    \* ---- threads (stop_event; test_system_monitor.py's queue and threads) -
    stop_event,         \* threading.Event: is it set
    arrived,            \* how many bytes of stream have reached the port
    SEND_QUEUE,         \* queue.Queue of packets waiting for the writer
    enqueued,           \* every packet put into SEND_QUEUE, in put order
    tpc,                \* position of SerialWriter, GeneratorA, GeneratorB
    packet,             \* serial_writer_thread's local packet
    sent,               \* how many bytes of packet ser.write has put out
    produced,           \* how many packets each generator has produced
    \* ---- CSV conversion (final_convert.py process_csv_to_can) -----------
    csv_file,           \* the input file: missing, without the columns, or ok
    csv_rows,           \* the rows of the input file (speed and angle texts)
    row_index,          \* how many rows the loop has gone through
    csv_alive_counter,  \* process_csv_to_can's local alive_counter
    output_data,        \* process_csv_to_can's local output_data
    warnings,           \* row numbers (from 1) a warning was printed for
    exported,           \* the rows written to the output file, if written
    fpc,                \* position of process_csv_to_can
    \* ---- RadarDataGenerator object (generator.py) -----------------------
    current_radar_id,   \* self.current_radar_id
    last_distances,     \* self.last_distances, in sixteenths
    radar_packet,       \* what the last generate_data() returned
    radar_index,        \* the slot _get_smooth_distance was last called with
    calls,              \* how many times generate_data() was called
    \* ---- status-packet reader (parse_monitor_data.py) -------------------
    ser_stream,         \* the bytes the port delivers
    ser_pos,            \* how many of them ser.read has returned
    monitor_output,     \* what parse_system_monitor_data printed, per call
    monpc,              \* position of the reader / of the direct call
    \* ---- legacy 4-byte converter (test_converter.py, parse_old.py) ------
    conv_velocity,      \* argument linear_velocity_mms
    conv_angle,         \* argument steering_angle_rad, in 1/2048 rad
    conv_hex,           \* what generate_control_data_hex returned
    conv_bytes,         \* the bytes handed to parse_control_data_4byte
    conv_res,           \* what parse_control_data_4byte returned / raised
    convpc,             \* position of the converter run
    \* ---- hex_dec_converter (hex_converter.py) ---------------------------
    hx_value,           \* the decimal value converted
    hx_bit_width,       \* argument bit_width
    hx_hex,             \* the result of target_type='hex'
    hx_dec,             \* the result of target_type='dec' on hx_hex
    hxpc                \* position of the conversion run

codecVars == <<gear, velocity, angle_raw, alive, hex_string, data_bytes, result, cpc>>
sessionVars == <<script, mpc, written, stream, pos, buffer, log, rpc>>
threadVars == <<stop_event, arrived, SEND_QUEUE, enqueued, tpc, packet, sent, produced>>
csvVars == <<csv_file, csv_rows, row_index, csv_alive_counter, output_data, warnings,
             exported, fpc>>
radarVars == <<current_radar_id, last_distances, radar_packet, radar_index, calls>>
readerVars == <<ser_stream, ser_pos, monitor_output, monpc>>
converterVars == <<conv_velocity, conv_angle, conv_hex, conv_bytes, conv_res, convpc>>
hexVars == <<hx_value, hx_bit_width, hx_hex, hx_dec, hxpc>>
toolVars == <<radarVars, readerVars, converterVars, hexVars>>
vars == <<codecVars, sessionVars, threadVars, csvVars, toolVars>>

\* no RadarDataGenerator has been constructed
RadarIdle ==
    /\ current_radar_id = 0 /\ last_distances = <<>> /\ radar_packet = <<>>
    /\ radar_index = 0 /\ calls = 0

\* parse_monitor_data.py is not running
ReaderIdle ==
    /\ ser_stream = <<>> /\ ser_pos = 0 /\ monitor_output = <<>> /\ monpc = "off"

\* test_converter.py is not running
ConverterIdle ==
    /\ conv_velocity = 0 /\ conv_angle = 0 /\ conv_hex = <<>> /\ conv_bytes = <<>>
    /\ conv_res = <<>> /\ convpc = "off"

\* hex_dec_converter is not being called
HexIdle ==
    /\ hx_value = 0 /\ hx_bit_width = 0 /\ hx_hex = <<>> /\ hx_dec = <<>> /\ hxpc = "off"

\* none of the stand-alone tools is running
ToolsIdle == RadarIdle /\ ReaderIdle /\ ConverterIdle /\ HexIdle

(***************************************************************************)
(* Integer bit arithmetic, as Python's int operators compute it.            *)
(***************************************************************************)
RECURSIVE Pow2(_)
Pow2(n) == IF n = 0 THEN 1 ELSE 2 * Pow2(n - 1)

RECURSIVE BitAnd(_, _)
\* a & b for a, b >= 0
BitAnd(a, b) ==
    IF a = 0 \/ b = 0 THEN 0
    ELSE ((a % 2) * (b % 2)) + (2 * BitAnd(a \div 2, b \div 2))

RECURSIVE BitXor(_, _)
\* a ^ b for a, b >= 0
BitXor(a, b) ==
    IF a = 0 THEN b
    ELSE IF b = 0 THEN a
    ELSE (((a % 2) + (b % 2)) % 2) + (2 * BitXor(a \div 2, b \div 2))

\* a & b for b >= 0 and any integer a (two's complement of unbounded width)
And(a, b) == IF a >= 0 THEN BitAnd(a, b) ELSE b - BitAnd((-a) - 1, b)

\* a | b for b >= 0 and any integer a
Or(a, b) == (a + b) - And(a, b)

\* a ^ b for a, b >= 0
Xor(a, b) == BitXor(a, b)

\* a << n and a >> n
Shl(a, n) == a * Pow2(n)
Shr(a, n) == a \div Pow2(n)

(***************************************************************************)
(* Text and byte-string helpers of the Python runtime.                      *)
(***************************************************************************)
HexDigits == <<"0", "1", "2", "3", "4", "5", "6", "7",
               "8", "9", "A", "B", "C", "D", "E", "F">>

\* f'{b:02X}' for a byte b
Hex02X(b) == <<HexDigits[(b \div 16) + 1], HexDigits[(b % 16) + 1]>>

RECURSIVE JoinSpaced(_)
\* ' '.join(f'{b:02X}' for b in bs)
JoinSpaced(bs) ==
    IF bs = <<>> THEN <<>>
    ELSE IF Len(bs) = 1 THEN Hex02X(bs[1])
    ELSE Hex02X(bs[1]) \o <<" ">> \o JoinSpaced(Tail(bs))

RECURSIVE HexUpper(_)
\* bs.hex().upper()
HexUpper(bs) == IF bs = <<>> THEN <<>> ELSE Hex02X(bs[1]) \o HexUpper(Tail(bs))

\* value of a hexadecimal digit character, -1 when it is none
HexValue(ch) ==
    IF \E i \in 1..16 : HexDigits[i] = ch
    THEN (CHOOSE i \in 1..16 : HexDigits[i] = ch) - 1
    ELSE -1

RECURSIVE fromhex(_)
\* bytes.fromhex(text): spaces are skipped between bytes, every byte is two
\* hexadecimal digits; anything else raises ValueError
fromhex(text) ==
    IF text = <<>> THEN [raised |-> FALSE, value |-> <<>>]
    ELSE IF text[1] = " " THEN fromhex(Tail(text))
    ELSE IF Len(text) < 2 \/ HexValue(text[1]) < 0 \/ HexValue(text[2]) < 0
         THEN [raised |-> TRUE, value |-> <<>>]
    ELSE LET rest == fromhex(SubSeq(text, 3, Len(text)))
         IN  IF rest.raised THEN rest
             ELSE [raised |-> FALSE,
                   value |-> <<(16 * HexValue(text[1])) + HexValue(text[2])>> \o rest.value]

\* Integers wider than the checker's 32-bit arithmetic are kept as two limbs:
\* [hi, lo] stands for hi * 65536 + lo with lo in 0..65535 (hi < 0 for a
\* negative integer).
\* v << 4
Shl4Wide(v) == [hi |-> v \div 4096, lo |-> (v % 4096) * 16]

\* w | m for a limb pair w and a mask m in 0..65535
OrWide(w, m) == [hi |-> w.hi, lo |-> Or(w.lo, m)]

\* struct.pack('<I', w): four bytes little-endian, struct.error outside 0..2^32-1
pack_I(w) ==
    IF w.hi < 0 \/ w.hi > 65535 THEN [raised |-> TRUE, value |-> <<>>]
    ELSE [raised |-> FALSE,
          value |-> <<w.lo % 256, w.lo \div 256, w.hi % 256, w.hi \div 256>>]

\* the two bytes in the other order (a '<h' in place of '>h')
pack_h_little_endian(x) ==
    IF x < -32768 \/ x > 32767 THEN [raised |-> TRUE, value |-> <<>>]
    ELSE [raised |-> FALSE, value |-> <<x % 256, (x % 65536) \div 256>>]

\* struct.pack('>h', x): two bytes big-endian two's complement, struct.error
\* outside -32768..32767
pack_h(x) ==
    IF x < -32768 \/ x > 32767 THEN [raised |-> TRUE, value |-> <<>>]
    ELSE [raised |-> FALSE, value |-> <<(x % 65536) \div 256, x % 256>>]

\* the 16 bits read without their sign (a '>H' in place of '>h')
unpack_h_unsigned(hi, lo) == (256 * hi) + lo

\* struct.unpack('>h', bytes([hi, lo]))[0]
unpack_h(hi, lo) ==
    LET u == (256 * hi) + lo IN IF u >= 32768 THEN u - 65536 ELSE u

\* struct.unpack('<I', b)[0] for four bytes b
unpack_I(b) == b[1] + (256 * b[2]) + (65536 * b[3]) + (16777216 * b[4])

RECURSIVE XorAll(_)
\* bcc = 0; for byte in payload: bcc ^= byte
XorAll(bs) == IF bs = <<>> THEN 0 ELSE Xor(XorAll(SubSeq(bs, 1, Len(bs) - 1)), bs[Len(bs)])

RECURSIVE SumAll(_)
\* sum(bs)
SumAll(bs) == IF bs = <<>> THEN 0 ELSE bs[1] + SumAll(Tail(bs))

(***************************************************************************)
(* Vehicle-control codec.                                                   *)
(***************************************************************************)
\* a BCC that leaves out the last payload byte (the alive counter)
bcc_without_alive(payload) == XorAll(SubSeq(payload, 1, Len(payload) - 1))

\* the BCC byte of build_vehicle_control_data
bcc_of(payload) == XorAll(payload)

\* build_vehicle_control_data of reverse_parse.py: the hex text it returns,
\* or raised when one of the struct.pack calls raises
build_vehicle_control_data(g, v, a, c) ==
    LET speed_shifted == Shl4Wide(v)
        raw_u32       == OrWide(speed_shifted, And(g, 15))
        raw_bytes     == pack_I(raw_u32)
        angle_bytes   == pack_h(a)
    IN  IF raw_bytes.raised \/ angle_bytes.raised
        THEN [raised |-> TRUE, value |-> <<>>]
        ELSE LET data0     == raw_bytes.value[1]
                 data1     == raw_bytes.value[2]
                 data2a    == raw_bytes.value[3]
                 high_byte == angle_bytes.value[1]
                 low_byte  == angle_bytes.value[2]
                 data4     == And(Shr(high_byte, 4), 15)
                 data3     == Or(Shl(And(high_byte, 15), 4), Shr(low_byte, 4))
                 data2     == Or(data2a, Shl(And(low_byte, 15), 4))
                 data5     == 0
                 data6     == And(c, 255)
                 payload   == <<data0, data1, data2, data3, data4, data5, data6>>
                 data7     == bcc_of(payload)
                 final_data == payload \o <<data7>>
             IN  [raised |-> FALSE, value |-> JoinSpaced(final_data)]

\* the gear names of parse_vehicle_control_data
gear_name_of(g) ==
    CASE g = 0 -> "disable"
      [] g = 1 -> "P (Parking)"
      [] g = 2 -> "R (Reverse)"
      [] g = 3 -> "N (Neutral)"
      [] g = 4 -> "D (Drive)"
      [] OTHER -> "Unknown"

\* the result of a parse that raised ValueError
ParseRaised == [raised |-> TRUE, fields |-> <<>>]

\* a length check that accepts 8 bytes only
length_rejected_unless_8(data) == Len(data) # 8

\* parse_data.py lines 16-17: if len(data) < 8: raise ValueError
length_rejected(data) == Len(data) < 8

\* a decoder that reads the 16 speed bits as a signed short, like the angle
parse_vehicle_control_data_signed_velocity(data) ==
    IF length_rejected(data) THEN ParseRaised
    ELSE LET u == Shr(And(unpack_I(SubSeq(data, 1, 3) \o <<0>>), 1048560), 4)
         IN  [raised |-> FALSE,
              fields |-> [data_hex |-> HexUpper(data),
                          gear_raw |-> And(data[1], 15),
                          gear_name |-> gear_name_of(And(data[1], 15)),
                          linear_velocity_mms |-> IF u >= 32768 THEN u - 65536 ELSE u,
                          steering_angle_raw |->
                              unpack_h(Or(Shl(And(data[5], 15), 4), And(Shr(data[4], 4), 15)),
                                       Or(Shl(And(data[4], 15), 4), And(Shr(data[3], 4), 15)))]]

\* a decoder that refuses a payload whose byte 7 is not the XOR of bytes 0..6
parse_vehicle_control_data_checking_bcc(data) ==
    IF length_rejected(data) \/ data[8] # XorAll(SubSeq(data, 1, 7)) THEN ParseRaised
    ELSE [raised |-> FALSE,
          fields |-> [data_hex |-> HexUpper(data),
                      gear_raw |-> And(data[1], 15),
                      gear_name |-> gear_name_of(And(data[1], 15)),
                      linear_velocity_mms |->
                          Shr(And(unpack_I(SubSeq(data, 1, 3) \o <<0>>), 1048560), 4),
                      steering_angle_raw |->
                          unpack_h(Or(Shl(And(data[5], 15), 4), And(Shr(data[4], 4), 15)),
                                   Or(Shl(And(data[4], 15), 4), And(Shr(data[3], 4), 15)))]]

\* parse_vehicle_control_data of parse_data.py.  The three float fields
\* (m/s, degree, radian) are scalings of the two raw fields and are left out.
parse_vehicle_control_data(data) ==
    IF length_rejected(data) THEN ParseRaised
    ELSE LET gear_raw == And(data[1], 15)
             speed_raw_u32 == unpack_I(SubSeq(data, 1, 3) \o <<0>>)
             linear_velocity_mms == Shr(And(speed_raw_u32, 1048560), 4)
             high_byte == Or(Shl(And(data[5], 15), 4), And(Shr(data[4], 4), 15))
             low_byte  == Or(Shl(And(data[4], 15), 4), And(Shr(data[3], 4), 15))
             steering_angle_raw == unpack_h(high_byte, low_byte)
         IN  [raised |-> FALSE,
              fields |-> [data_hex |-> HexUpper(data),
                          gear_raw |-> gear_raw,
                          gear_name |-> gear_name_of(gear_raw),
                          linear_velocity_mms |-> linear_velocity_mms,
                          steering_angle_raw |-> steering_angle_raw]]

(***************************************************************************)
(* data_conversion.py: the 4-byte control data turned into the 8-byte       *)
(* payload.                                                                 *)
(***************************************************************************)
\* data_conversion.py: TARGET_GEAR = 0x04
TARGET_GEAR == 4

\* parse_control_data_4byte: velocity and angle as big-endian signed shorts
parse_control_data_4byte(hex_data_4_bytes) ==
    IF Len(hex_data_4_bytes) # 4
    THEN [raised |-> TRUE, linear_velocity_mms |-> 0, steering_angle_rad |-> 0]
    ELSE [raised |-> FALSE,
          linear_velocity_mms |-> unpack_h(hex_data_4_bytes[1], hex_data_4_bytes[2]),
          steering_angle_rad  |-> unpack_h(hex_data_4_bytes[3], hex_data_4_bytes[4])]

\* the decimals of 1/3.141592653589793 = 0.318 309 886 183 790..., three at a
\* time, last group first
InvPiGroups == <<790, 183, 886, 309, 318>>

RECURSIVE TimesInvPi(_, _)
\* n * (groups 1..k of InvPiGroups, as a fraction scaled by 1000), rounded down
TimesInvPi(n, k) ==
    IF k = 0 THEN 0
    ELSE (n * InvPiGroups[k]) + (TimesInvPi(n, k - 1) \div 1000)

\* int(rad_to_deg(r / 1000) * 100) of convert_to_new_protocol, for a 16-bit r:
\* r * 18 / pi truncated toward zero (equal to the float result for every r
\* in -32768..32767)
int_deg_times_100(r) ==
    LET q == TimesInvPi((IF r < 0 THEN -r ELSE r) * 18, 5) \div 1000
    IN  IF r < 0 THEN -q ELSE q

\* an encoder that refuses a velocity of more than 16 bits
data_conversion_build_checking_velocity(g, v, a, c) ==
    LET raw_bytes   == pack_I(OrWide(Shl4Wide(v), And(g, 15)))
        angle_bytes == pack_h(a)
    IN  IF raw_bytes.raised \/ angle_bytes.raised \/ v > 65535
        THEN [raised |-> TRUE, value |-> <<>>]
        ELSE LET high_byte == angle_bytes.value[1]
                 low_byte  == angle_bytes.value[2]
                 payload   == <<raw_bytes.value[1], raw_bytes.value[2],
                                Or(raw_bytes.value[3], Shl(And(low_byte, 15), 4)),
                                Or(Shl(And(high_byte, 15), 4), Shr(low_byte, 4)),
                                And(Shr(high_byte, 4), 15), 0, And(c, 255)>>
             IN  [raised |-> FALSE, value |-> JoinSpaced(payload \o <<XorAll(payload)>>)]

\* build_vehicle_control_data of data_conversion.py
data_conversion_build_vehicle_control_data(g, v, a, c) ==
    LET speed_shifted == Shl4Wide(v)
        raw_u32       == OrWide(speed_shifted, And(g, 15))
        raw_bytes     == pack_I(raw_u32)
        angle_bytes   == pack_h(a)
    IN  IF raw_bytes.raised \/ angle_bytes.raised
        THEN [raised |-> TRUE, value |-> <<>>]
        ELSE LET data0     == raw_bytes.value[1]
                 data1     == raw_bytes.value[2]
                 high_byte == angle_bytes.value[1]
                 low_byte  == angle_bytes.value[2]
                 data4     == And(Shr(high_byte, 4), 15)
                 data3     == Or(Shl(And(high_byte, 15), 4), Shr(low_byte, 4))
                 data2     == Or(raw_bytes.value[3], Shl(And(low_byte, 15), 4))
                 data5     == 0
                 data6     == And(c, 255)
                 payload   == <<data0, data1, data2, data3, data4, data5, data6>>
             IN  [raised |-> FALSE, value |-> JoinSpaced(payload \o <<XorAll(payload)>>)]

\* convert_to_new_protocol: the locals speedMs and steering_angle_raw and the
\* can_data text, or raised when parse_control_data_4byte or a struct.pack
\* raises
convert_to_new_protocol(hex_data_4_bytes, alive_counter) ==
    LET res == parse_control_data_4byte(hex_data_4_bytes)
        speedMs == res.linear_velocity_mms
        steering_angle_raw == int_deg_times_100(res.steering_angle_rad)
    IN  IF res.raised
        THEN [parsed |-> FALSE, speedMs |-> 0, steering_angle_raw |-> 0,
              can_data |-> [raised |-> TRUE, value |-> <<>>]]
        ELSE [parsed |-> TRUE, speedMs |-> speedMs,
              steering_angle_raw |-> steering_angle_raw,
              can_data |-> data_conversion_build_vehicle_control_data(
                               TARGET_GEAR, speedMs, steering_angle_raw, alive_counter)]

(***************************************************************************)
(* final_convert.py: the encoder the CSV converter calls.                   *)
(***************************************************************************)
\* the angle nibble replaces the velocity nibble in data[2] (no OR with the
\* data2 of step 1)
final_convert_build_without_merge(g, v, a, c) ==
    LET raw_bytes   == pack_I(OrWide(Shl4Wide(v), And(g, 15)))
        angle_bytes == pack_h(a)
    IN  IF raw_bytes.raised \/ angle_bytes.raised
        THEN [raised |-> TRUE, value |-> <<>>]
        ELSE LET high_byte == angle_bytes.value[1]
                 low_byte  == angle_bytes.value[2]
                 payload   == <<raw_bytes.value[1], raw_bytes.value[2],
                                Shl(And(low_byte, 15), 4),
                                Or(Shl(And(high_byte, 15), 4), Shr(low_byte, 4)),
                                And(Shr(high_byte, 4), 15), 0, And(c, 255)>>
             IN  [raised |-> FALSE, value |-> JoinSpaced(payload \o <<XorAll(payload)>>)]

\* build_vehicle_control_data of final_convert.py (debug left at False)
final_convert_build_vehicle_control_data(g, v, a, c) ==
    LET speed_shifted == Shl4Wide(v)
        raw_u32       == OrWide(speed_shifted, And(g, 15))
        raw_bytes     == pack_I(raw_u32)
        angle_bytes   == pack_h(a)
    IN  IF raw_bytes.raised \/ angle_bytes.raised
        THEN [raised |-> TRUE, value |-> <<>>]
        ELSE LET data0     == raw_bytes.value[1]
                 data1     == raw_bytes.value[2]
                 high_byte == angle_bytes.value[1]
                 low_byte  == angle_bytes.value[2]
                 data4     == And(Shr(high_byte, 4), 15)
                 data3     == Or(Shl(And(high_byte, 15), 4), Shr(low_byte, 4))
                 data2     == Or(raw_bytes.value[3], Shl(And(low_byte, 15), 4))
                 data5     == 0
                 data6     == And(c, 255)
                 payload   == <<data0, data1, data2, data3, data4, data5, data6>>
                 bcc       == XorAll(payload)
                 final_data == payload \o <<bcc>>
             IN  [raised |-> FALSE, value |-> JoinSpaced(final_data)]

(***************************************************************************)
(* Adapter configuration commands, as each script builds them.              *)
(***************************************************************************)
\* calculate_checksum(data): sum(data[2:]) & 0xff
calculate_checksum(data) == And(SumAll(SubSeq(data, 3, Len(data))), 255)

\* send.py: set_can_baudrate with the checksum appended
set_can_baudrate_send ==
    LET set_can_baudrate == <<170, 85, 18, 3, 2, 0, 0, 0, 0, 0, 0, 0, 0,
                              0, 0, 0, 0, 0, 0>>
    IN  Append(set_can_baudrate, calculate_checksum(set_can_baudrate))

\* receive.py: set_can_baudrate with the checksum appended
set_can_baudrate_receive ==
    LET set_can_baudrate == <<170, 85, 18, 3, 2, 0, 0, 0, 0, 0, 0, 0, 0,
                              0, 0, 0, 0, 0, 0>>
    IN  Append(set_can_baudrate, calculate_checksum(set_can_baudrate))

\* single-loop-test.py: set_can_baudrate (5 + 5 + 4 + 1 + 5 entries) with the
\* checksum appended
set_can_baudrate_single_loop_test ==
    LET set_can_baudrate == <<170, 85, 18, 3, 2,
                              0, 0, 0, 0, 0,
                              0, 0, 0, 0,
                              2,
                              0, 0, 0, 0, 0>>
    IN  Append(set_can_baudrate, calculate_checksum(set_can_baudrate))

\* check-config.py: set_can_baudrate (5 + 5 + 4 + 1 + 5 entries) with
\* sum(set_can_baudrate[2:]) & 0xff appended
set_can_baudrate_check_config ==
    LET set_can_baudrate == <<170, 85, 18, 3, 2,
                              0, 0, 0, 0, 0,
                              0, 0, 0, 0,
                              2,
                              0, 0, 0, 0, 0>>
    IN  Append(set_can_baudrate,
               And(SumAll(SubSeq(set_can_baudrate, 3, Len(set_can_baudrate))), 255))

\* a checksum that also sums the two header bytes
send_configuration_summing_header ==
    LET set_can_baudrate == <<170, 85, 18, 3, 2, 0, 0, 0, 0, 0, 0, 0, 0,
                              2, 0, 0, 0, 0, 0, 0>>
        checksum == And(SumAll(SubSeq(set_can_baudrate, 1, Len(set_can_baudrate) - 1)), 255)
    IN  SubSeq(set_can_baudrate, 1, Len(set_can_baudrate) - 1) \o <<checksum>>

\* loop-c.py send_configuration: config_frame, from a command with a zero in
\* the checksum position and sum(set_can_baudrate[2:-1]) & 0xff
send_configuration ==
    LET set_can_baudrate == <<170, 85, 18, 3, 2, 0, 0, 0, 0, 0, 0, 0, 0,
                              2, 0, 0, 0, 0, 0, 0>>
        checksum == And(SumAll(SubSeq(set_can_baudrate, 3, Len(set_can_baudrate) - 1)), 255)
    IN  SubSeq(set_can_baudrate, 1, Len(set_can_baudrate) - 1) \o <<checksum>>

\* single-loop-b.py set_can_configuration(ser, loop_mode): the bytes written
set_can_configuration(loop_mode) ==
    LET set_can_baudrate == <<170, 85, 18, 3, 2, 0, 0, 0, 0, 0, 0, 0, 0,
                              loop_mode, 0, 0, 0, 0, 0>>
        checksum == And(SumAll(SubSeq(set_can_baudrate, 3, Len(set_can_baudrate))), 255)
    IN  Append(set_can_baudrate, checksum)

Scripts == {"loop-c.py", "single-loop-b.py", "single-loop-test.py",
            "check-config.py", "send.py", "receive.py"}

\* the configuration command the script writes at its start
ConfigCommandOf(s) ==
    CASE s = "loop-c.py"           -> send_configuration
      [] s = "single-loop-b.py"    -> set_can_configuration(2)
      [] s = "single-loop-test.py" -> set_can_baudrate_single_loop_test
      [] s = "check-config.py"     -> set_can_baudrate_check_config
      [] s = "send.py"             -> set_can_baudrate_send
      [] s = "receive.py"          -> set_can_baudrate_receive

(***************************************************************************)
(* The buffered receiver of loop-c.py.                                      *)
(***************************************************************************)
\* a CAN id is kept as two 16-bit limbs, [hi, lo] = hi * 65536 + lo
WideOf(n) == [hi |-> n \div 65536, lo |-> n % 65536]

\* buffer[0] == 0xaa and (buffer[1] & 0xc0 == 0xc0), for a buffer of 2 or more
HeaderOk(buf) == buf[1] = 170 /\ And(buf[2], 192) = 192

\* frame_length of custom_receiver for the control byte
frame_length(ctrl) ==
    LET len_val == And(ctrl, 15)
    IN  IF And(ctrl, 32) = 0 THEN len_val + 3 + 2 ELSE len_val + 5 + 2

\* what parse_can_frame prints when it reports nothing received
NoFrame(kind) ==
    [kind |-> kind, id_val |-> WideOf(0), strFrameType |-> "", strFrameFormat |-> "",
     data_bytes |-> <<>>]

\* a parse_can_frame that does not look at the end marker
parse_can_frame_ignoring_end(frame_data) ==
    LET len_val == And(frame_data[2], 15)
        standard == And(frame_data[2], 32) = 0
    IN  [kind |-> "Receive CAN id",
         id_val |-> IF standard
                    THEN [hi |-> 0, lo |-> Or(Shl(frame_data[4], 8), frame_data[3])]
                    ELSE [hi |-> Or(Shl(frame_data[6], 8), frame_data[5]),
                          lo |-> Or(Shl(frame_data[4], 8), frame_data[3])],
         strFrameType |-> IF standard THEN "Standard Frame" ELSE "Extended Frame",
         strFrameFormat |-> IF And(frame_data[2], 16) = 0
                            THEN "Data Frame" ELSE "Remote Frame",
         data_bytes |-> IF standard
                        THEN SubSeq(frame_data, 5, 4 + len_val)
                        ELSE SubSeq(frame_data, 7, 6 + len_val)]

\* a parse_can_frame that reads the identifier most significant byte first
parse_can_frame_big_endian_id(frame_data) ==
    LET len_val == And(frame_data[2], 15)
        standard == And(frame_data[2], 32) = 0
    IN  IF frame_data[Len(frame_data)] # 85 THEN NoFrame("Invalid frame end marker")
        ELSE [kind |-> "Receive CAN id",
              id_val |-> IF standard
                         THEN [hi |-> 0, lo |-> Or(Shl(frame_data[3], 8), frame_data[4])]
                         ELSE [hi |-> Or(Shl(frame_data[3], 8), frame_data[4]),
                               lo |-> Or(Shl(frame_data[5], 8), frame_data[6])],
              strFrameType |-> IF standard THEN "Standard Frame" ELSE "Extended Frame",
              strFrameFormat |-> IF And(frame_data[2], 16) = 0
                                 THEN "Data Frame" ELSE "Remote Frame",
              data_bytes |-> IF standard
                             THEN SubSeq(frame_data, 5, 4 + len_val)
                             ELSE SubSeq(frame_data, 7, 6 + len_val)]

\* parse_can_frame(frame_data): what it reports.  The report holds the values
\* the function computed and prints (id_val, data_bytes, strFrameType,
\* strFrameFormat); an index past the end of frame_data raises inside the
\* function's try and is reported as "Error parsing frame".
parse_can_frame(frame_data) ==
    IF Len(frame_data) < 2 THEN NoFrame("")
    ELSE IF ~(frame_data[1] = 170 /\ And(frame_data[2], 192) = 192)
         THEN NoFrame("Invalid frame header")
    ELSE LET len_val == And(frame_data[2], 15)
             strFrameFormat == IF And(frame_data[2], 16) = 0
                               THEN "Data Frame" ELSE "Remote Frame"
             strFrameType == IF And(frame_data[2], 32) = 0
                             THEN "Standard Frame" ELSE "Extended Frame"
         IN  IF frame_data[Len(frame_data)] # 85
             THEN NoFrame("Invalid frame end marker")
             ELSE IF strFrameType = "Standard Frame"
             THEN IF Len(frame_data) < 4 THEN NoFrame("Error parsing frame")
                  ELSE [kind |-> "Receive CAN id",
                        id_val |-> [hi |-> 0,
                                    lo |-> Or(Shl(frame_data[4], 8), frame_data[3])],
                        strFrameType |-> strFrameType,
                        strFrameFormat |-> strFrameFormat,
                        data_bytes |-> IF len_val > 0
                                       THEN SubSeq(frame_data, 5,
                                                   IF 4 + len_val < Len(frame_data)
                                                   THEN 4 + len_val ELSE Len(frame_data))
                                       ELSE <<>>]
             ELSE IF Len(frame_data) < 6 THEN NoFrame("Error parsing frame")
                  ELSE [kind |-> "Receive CAN id",
                        id_val |-> [hi |-> Or(Shl(frame_data[6], 8), frame_data[5]),
                                    lo |-> Or(Shl(frame_data[4], 8), frame_data[3])],
                        strFrameType |-> strFrameType,
                        strFrameFormat |-> strFrameFormat,
                        data_bytes |-> IF len_val > 0
                                       THEN SubSeq(frame_data, 7,
                                                   IF 6 + len_val < Len(frame_data)
                                                   THEN 6 + len_val ELSE Len(frame_data))
                                       ELSE <<>>]

\* Python's hex(byte): "0x" and the lower-case digits without leading zeros
HexDigitsLower == <<"0", "1", "2", "3", "4", "5", "6", "7",
                    "8", "9", "a", "b", "c", "d", "e", "f">>
py_hex(byte) ==
    <<"0", "x">> \o (IF byte < 16 THEN <<HexDigitsLower[byte + 1]>>
                     ELSE <<HexDigitsLower[(byte \div 16) + 1], HexDigitsLower[(byte % 16) + 1]>>)

\* receive.py: the text "No Data" that stands for the data of an empty frame
NoDataText == <<"N", "o", " ", "D", "a", "t", "a">>

\* the body length is the length nibble with nothing added for the identifier
len2_of_data_only(ctrl) == And(ctrl, 15) + 1

\* receive.py main loop: len2, the number of bytes read after the header and
\* the control byte (identifier, data, end marker)
len2_of(ctrl) ==
    LET len == And(ctrl, 15)
    IN  IF And(ctrl, 32) = 0 THEN len + 3 ELSE len + 5

\* receive.py main loop: what is printed for the two header bytes `data` and
\* the body `data2`; CanData is a slice of the hex() texts of the body
receive_report(data, data2) ==
    LET len == And(data[2], 15)
        len2 == len2_of(data[2])
        strFrameFormat == IF And(data[2], 16) = 0 THEN "Data Frame" ELSE "Remote Frame"
        strFrameType == IF And(data[2], 32) = 0 THEN "Standard Frame" ELSE "Extended Frame"
        hex_data_of_body == [k \in 1..Len(data2) |-> py_hex(data2[k])]
        slice(first) == SubSeq(hex_data_of_body, first + 1,
                               IF first + len < Len(data2) THEN first + len ELSE Len(data2))
    IN  IF data2[len2] # 85 THEN NoFrame("Receive Packet header Error")
        ELSE IF strFrameType = "Standard Frame"
        THEN [kind |-> "Receive CAN id",
              id_val |-> [hi |-> 0, lo |-> Shl(data2[2], 8) + data2[1]],
              strFrameType |-> strFrameType,
              strFrameFormat |-> strFrameFormat,
              data_bytes |-> IF len > 0 THEN slice(2) ELSE <<NoDataText>>]
        ELSE [kind |-> "Receive CAN id",
              id_val |-> [hi |-> Shl(data2[4], 8) + data2[3],
                          lo |-> Shl(data2[2], 8) + data2[1]],
              strFrameType |-> strFrameType,
              strFrameFormat |-> strFrameFormat,
              data_bytes |-> IF len > 0 THEN slice(4) ELSE <<NoDataText>>]

\* one block of receive.py's output: the bytes of hex_data1 (header and body),
\* the stream offset of the header, and the lines printed after them
ReceiveEntry(at, data, data2) ==
    [at |-> at, window |-> data \o data2, report |-> receive_report(data, data2)]

\* one entry of the receiver's output: the window cut from the buffer, the
\* stream offset of its first byte, and what parse_can_frame reported for it
LogEntry(at, frame_data) ==
    [at |-> at, window |-> frame_data, report |-> parse_can_frame(frame_data)]

RECURSIVE DrainAll(_, _, _)
\* the inner while loop of custom_receiver run to its end on buffer buf, whose
\* first byte has stream offset at: the buffer left and the entries logged
DrainAll(buf, at, entries) ==
    IF Len(buf) < 2 THEN [buffer |-> buf, log |-> entries]
    ELSE IF HeaderOk(buf)
         THEN IF Len(buf) >= frame_length(buf[2])
              THEN DrainAll(SubSeq(buf, frame_length(buf[2]) + 1, Len(buf)),
                            at + frame_length(buf[2]),
                            Append(entries, LogEntry(at, SubSeq(buf, 1, frame_length(buf[2])))))
              ELSE [buffer |-> buf, log |-> entries]
         ELSE DrainAll(Tail(buf), at + 1, entries)

(***************************************************************************)
(* Codec run: arguments are drawn, the payload is built, turned back into   *)
(* bytes, possibly corrupted in one bit, and parsed.                        *)
(***************************************************************************)
\* arguments tried: the documented example of reverse_parse.py, the ends of
\* every field's range, nibble boundaries, and values outside the ranges
GearInputs     == 0..16
VelocityInputs == {-32768, -1, 0, 1, 3000, 4095, 4096, 32768, 65535, 65536,
                   Pow2(28) - 1, Pow2(28)}
AngleInputs    == {-32769, -32768, -4096, -95, -1, 0, 1, 255, 1600, 32767, 32768}
AliveInputs    == {0, 16, 255}

NoText  == [raised |-> FALSE, value |-> <<>>]
NoBytes == <<>>

\* the threads of test_system_monitor.py, by their Thread names
Threads == {"SerialWriter", "GeneratorA", "GeneratorB"}
Generators == {"GeneratorA", "GeneratorB"}

\* no output file has been written
NoFile == [written |-> FALSE, rows |-> <<>>]

\* process_csv_to_can is not running
CsvIdle ==
    /\ csv_file = "none" /\ csv_rows = <<>> /\ row_index = 0 /\ csv_alive_counter = 0
    /\ output_data = <<>> /\ warnings = <<>> /\ exported = NoFile /\ fpc = "off"

\* no stop_event set, nothing on the port, no thread of test_system_monitor.py
ThreadsIdle ==
    /\ stop_event = FALSE /\ arrived = 0
    /\ SEND_QUEUE = <<>> /\ enqueued = <<>>
    /\ tpc = [t \in Threads |-> "off"]
    /\ packet = <<>> /\ sent = 0
    /\ produced = [g \in Generators |-> 0]

SessionIdle ==
    /\ script = "none" /\ mpc = "done" /\ written = <<>> /\ stream = <<>>
    /\ pos = 0 /\ buffer = <<>> /\ log = <<>> /\ rpc = "off"
    /\ ThreadsIdle

\* reverse_parse.py: TARGET_GEAR, TARGET_VELOCITY_MMS, TARGET_ANGLE_RAW,
\* ALIVE_COUNTER
TargetInputs == [gear |-> 4, velocity |-> 3000, angle_raw |-> -95, alive |-> 0]

\* parse_data.py: hex_data = "84BB10FA0F0000DA"
hex_data == <<"8", "4", "B", "B", "1", "0", "F", "A",
              "0", "F", "0", "0", "0", "0", "D", "A">>

\* 4-byte control data tried (data_conversion.py): the example of main
\* (0B B8 FF 07), velocities 0, 3000, 32767, -1 and -32768, angles 0, -249,
\* 5719 and 5720 (the last one that fits 16 bits after the conversion and the
\* first that does not), 32767 and -32768; and one input of 3 bytes
OldProtocolInputs ==
    {v \o a : v \in {<<0, 0>>, <<11, 184>>, <<127, 255>>, <<255, 255>>, <<128, 0>>},
              a \in {<<0, 0>>, <<255, 7>>, <<22, 87>>, <<22, 88>>, <<127, 255>>, <<128, 0>>}}
    \cup {<<11, 184, 255>>}

\* a run starts with arguments for the encoder (reverse_parse.py), with the
\* text parse_data.py decodes, or with 4-byte control data (data_conversion.py)
CodecInit ==
    /\ \/ /\ gear \in GearInputs
          /\ velocity \in VelocityInputs
          /\ angle_raw \in AngleInputs
          /\ alive \in AliveInputs
          /\ hex_string = NoText
          /\ cpc = "input"
          /\ data_bytes = NoBytes
       \/ /\ gear = TargetInputs.gear
          /\ velocity = TargetInputs.velocity
          /\ angle_raw = TargetInputs.angle_raw
          /\ alive = TargetInputs.alive
          /\ hex_string = [raised |-> FALSE, value |-> hex_data]
          /\ cpc = "literal"
          /\ data_bytes = NoBytes
       \/ /\ gear = 0 /\ velocity = 0 /\ angle_raw = 0
          /\ alive \in AliveInputs
          /\ hex_string = NoText
          /\ data_bytes \in OldProtocolInputs
          /\ cpc = "old_input"
       \/ /\ gear \in GearInputs
          /\ velocity \in VelocityInputs
          /\ angle_raw \in AngleInputs
          /\ alive \in AliveInputs
          /\ hex_string = NoText
          /\ cpc = "final_input"
          /\ data_bytes = NoBytes
    /\ result = ParseRaised
    /\ SessionIdle
    /\ CsvIdle
    /\ ToolsIdle

\* reverse_parse.py: hex_string_spaced = build_vehicle_control_data(...)
Build ==
    /\ cpc = "input"
    /\ hex_string' = build_vehicle_control_data(gear, velocity, angle_raw, alive)
    /\ cpc' = IF hex_string'.raised THEN "build_error" ELSE "built"
    /\ UNCHANGED <<gear, velocity, angle_raw, alive, data_bytes, result, sessionVars, csvVars, toolVars, threadVars>>

\* final_convert.py: hex_data = build_vehicle_control_data(gear=...,
\* linear_velocity_mms=..., steering_angle_raw=..., alive_counter=...)
FinalBuild ==
    /\ cpc = "final_input"
    /\ hex_string' = final_convert_build_vehicle_control_data(gear, velocity, angle_raw, alive)
    /\ cpc' = IF hex_string'.raised THEN "final_error" ELSE "final_built"
    /\ UNCHANGED <<gear, velocity, angle_raw, alive, data_bytes, result, sessionVars, csvVars, toolVars, threadVars>>

\* data_conversion.py main: result = convert_to_new_protocol(hex_data, 0);
\* gear, velocity and angle_raw become the arguments it hands to
\* build_vehicle_control_data
Convert ==
    /\ cpc = "old_input"
    /\ LET r == convert_to_new_protocol(data_bytes, alive)
       IN  /\ hex_string' = r.can_data
           /\ gear' = IF r.parsed THEN TARGET_GEAR ELSE gear
           /\ velocity' = r.speedMs
           /\ angle_raw' = r.steering_angle_raw
           /\ cpc' = IF r.can_data.raised THEN "convert_error" ELSE "converted"
    /\ UNCHANGED <<alive, data_bytes, result, sessionVars, csvVars, toolVars, threadVars>>

\* parse_data.py: data_bytes = bytes.fromhex(hex_data)
FromHex ==
    /\ cpc \in {"built", "literal", "converted"}
    /\ ~fromhex(hex_string.value).raised
    /\ data_bytes' = fromhex(hex_string.value).value
    /\ cpc' = "bytes"
    /\ UNCHANGED <<gear, velocity, angle_raw, alive, hex_string, result, sessionVars, csvVars, toolVars, threadVars>>

\* byte i (from 0) of bs with bit b inverted
FlipBitOf(bs, i, b) == [bs EXCEPT ![i + 1] = Xor(bs[i + 1], Pow2(b))]

\* one bit of bytes 0..6 of the payload is inverted in transit
FlipBit ==
    /\ cpc = "bytes"
    /\ \E i \in 0..6, b \in 0..7 : data_bytes' = FlipBitOf(data_bytes, i, b)
    /\ cpc' = "flipped"
    /\ UNCHANGED <<gear, velocity, angle_raw, alive, hex_string, result, sessionVars, csvVars, toolVars, threadVars>>

\* byte strings of other lengths made from an 8-byte payload: cut to 0, 1 and
\* 7 bytes, and followed by one more byte or by a second payload
ResizedInputs(bs) ==
    {SubSeq(bs, 1, n) : n \in {0, 1, 7}} \cup {bs \o <<0>>, bs \o bs}

\* the caller hands parse_vehicle_control_data fewer or more than 8 bytes
Resize ==
    /\ cpc = "bytes"
    /\ data_bytes' \in ResizedInputs(data_bytes)
    /\ cpc' = "resized"
    /\ UNCHANGED <<gear, velocity, angle_raw, alive, hex_string, result, sessionVars, csvVars, toolVars, threadVars>>

\* parse_data.py: result = parse_vehicle_control_data(data_bytes); the bytes
\* are the built payload ("parsed") or an altered one ("parsed_altered")
Parse ==
    /\ cpc \in {"bytes", "flipped", "resized"}
    /\ result' = parse_vehicle_control_data(data_bytes)
    /\ cpc' = IF cpc = "bytes" THEN "parsed" ELSE "parsed_altered"
    /\ UNCHANGED <<gear, velocity, angle_raw, alive, hex_string, data_bytes, sessionVars, csvVars, toolVars, threadVars>>

\* the last three bytes a payload can carry in place of its own: zeros, ones,
\* a brake byte and a counter with a BCC that does not fit
TamperTails == {<<0, 0, 0>>, <<255, 255, 255>>, <<1, 240, 90>>}

\* a second payload that agrees with the decoded one on bytes 0..4 and has
\* other bytes 5, 6 and 7; result still holds what the first one decoded to
Tamper ==
    /\ cpc = "parsed"
    /\ \E t \in TamperTails :
          /\ t # SubSeq(data_bytes, 6, 8)
          /\ data_bytes' = SubSeq(data_bytes, 1, 5) \o t
    /\ cpc' = "tampered"
    /\ UNCHANGED <<gear, velocity, angle_raw, alive, hex_string, result, sessionVars, csvVars, toolVars, threadVars>>

\* parse_data.py: parse_vehicle_control_data called on the second payload
Reparse ==
    /\ cpc = "tampered"
    /\ result' = parse_vehicle_control_data(data_bytes)
    /\ cpc' = "reparsed"
    /\ UNCHANGED <<gear, velocity, angle_raw, alive, hex_string, data_bytes, sessionVars, csvVars, toolVars, threadVars>>

CodecNext ==
    Build \/ FinalBuild \/ Convert \/ FromHex \/ FlipBit \/ Resize \/ Parse \/ Tamper \/ Reparse

SpecCodec == CodecInit /\ [][CodecNext]_vars

(***************************************************************************)
(* Serial session: the script writes its configuration command; in          *)
(* loop-c.py the receiver thread then reads what the adapter sends.         *)
(***************************************************************************)
\* the frame layout the comments of send.py's send_can_id_data describe: AA,
\* control byte (bits 7..6 set, bit 5 extended, bit 4 remote, bits 3..0 the
\* data length), identifier little-endian (2 or 4 bytes), data, 55
FrameBytes(id, ext, remote, data) ==
    <<170, 192 + (IF ext THEN 32 ELSE 0) + (IF remote THEN 16 ELSE 0) + (Len(data) % 16)>>
    \o (IF ext
        THEN <<id.lo % 256, id.lo \div 256, id.hi % 256, id.hi \div 256>>
        ELSE <<id.lo % 256, id.lo \div 256>>)
    \o data \o <<85>>

\* loop-c.py main: test_frame (extended data frame, id 0x01234567, 8 bytes)
test_frame == <<170, 232, 103, 69, 35, 1, 17, 34, 51, 68, 85, 102, 119, 136, 85>>

\* frames tried one at a time: identifiers at and beyond the ends of the 11-
\* and 29-bit ranges, both formats, data of every length 0..8 and data that
\* contains header and end-marker bytes
FrameData == {SubSeq(<<17, 34, 51, 68, 85, 102, 119, 136>>, 1, n) : n \in 0..8}
                 \cup {<<170, 192>>, <<85>>}
FrameParams ==
    [id : {WideOf(0), WideOf(291), WideOf(2047), WideOf(65535)},
     ext : {FALSE}, remote : BOOLEAN, data : FrameData]
    \cup
    [id : {WideOf(0), WideOf(19088743), WideOf(536870911), [hi |-> 65535, lo |-> 65535]},
     ext : {TRUE}, remote : BOOLEAN, data : FrameData]
BuiltFrames == {[p |-> p, bytes |-> FrameBytes(p.id, p.ext, p.remote, p.data)] : p \in FrameParams}

\* pieces the longer streams are made of: valid frames, a window with a wrong
\* end marker, a frame cut short, and stray bytes
Segments ==
    { FrameBytes(WideOf(291), FALSE, FALSE, <<>>),
      FrameBytes(WideOf(65535), FALSE, TRUE, <<170, 193>>),
      test_frame,
      <<170, 192, 35, 1, 0>>,
      <<170, 192, 35, 1>>,
      <<171>>,
      <<170>> }

MaxSegments == 3
RECURSIVE SegmentStreams(_)
SegmentStreams(k) ==
    IF k = 0 THEN {<<>>}
    ELSE LET shorter == SegmentStreams(k - 1)
         IN  shorter \cup {st \o g : st \in shorter, g \in Segments}

\* every byte string up to MaxRawLen over the bytes the receiver tells apart
RawBytes == {170, 192, 85, 171}
MaxRawLen == 5
RECURSIVE RawStreams(_)
RawStreams(k) ==
    IF k = 0 THEN {<<>>}
    ELSE LET shorter == RawStreams(k - 1)
         IN  shorter \cup {Append(st, b) : st \in shorter, b \in RawBytes}

\* one frame for every control byte with bits 7..6 set, laid out as the
\* receivers read it: identifier (2 or 4 bytes), as many data bytes as the
\* length nibble says (0..15), end marker; a short valid frame follows it
ControlBytes == 192..255
FrameOfControl(ctrl) ==
    <<170, ctrl>>
    \o (IF And(ctrl, 32) = 0 THEN <<35, 1>> ELSE <<103, 69, 35, 1>>)
    \o [k \in 1..And(ctrl, 15) |-> 16 + k]
    \o <<85>>
ControlStreams ==
    {FrameOfControl(ctrl) \o FrameBytes(WideOf(291), FALSE, FALSE, <<>>) : ctrl \in ControlBytes}

InputStreams ==
    SegmentStreams(MaxSegments) \cup RawStreams(MaxRawLen) \cup {e.bytes : e \in BuiltFrames}
        \cup ControlStreams

CodecIdle ==
    /\ gear = 0 /\ velocity = 0 /\ angle_raw = 0 /\ alive = 0
    /\ hex_string = NoText /\ data_bytes = NoBytes /\ result = ParseRaised
    /\ cpc = "off"

Init ==
    /\ script \in Scripts
    /\ mpc = "start"
    /\ written = <<>>
    /\ stream \in (IF script \in {"loop-c.py", "receive.py"} THEN InputStreams ELSE {<<>>})
    /\ pos = 0
    /\ buffer = <<>>
    /\ log = <<>>
    /\ rpc = "off"
    /\ ThreadsIdle
    /\ CodecIdle
    /\ CsvIdle
    /\ ToolsIdle

\* main of every script: the configuration command is written to the port
SendConfiguration ==
    /\ script \in Scripts
    /\ mpc = "start"
    /\ written' = Append(written, ConfigCommandOf(script))
    /\ mpc' = "configured"
    /\ UNCHANGED <<script, stream, pos, buffer, log, rpc, codecVars, csvVars, toolVars, threadVars>>

\* send_configuration leaves the bytes that reached the port where they are
ResetInputBuffer_keeping ==
    /\ script = "loop-c.py"
    /\ mpc = "configured"
    /\ pos' = pos
    /\ mpc' = "cleared"
    /\ UNCHANGED <<script, written, stream, buffer, log, rpc, codecVars, csvVars, toolVars, threadVars>>

\* loop-c.py send_configuration: ser.reset_input_buffer() throws away the
\* bytes that have reached the port and were not read
ResetInputBuffer ==
    /\ script = "loop-c.py"
    /\ mpc = "configured"
    /\ pos' = arrived
    /\ mpc' = "cleared"
    /\ UNCHANGED <<script, written, stream, buffer, log, rpc, codecVars, csvVars, toolVars, threadVars>>

\* loop-c.py main: recv_thread.start(), after send_configuration returned
StartReceiver ==
    /\ script = "loop-c.py"
    /\ mpc = "cleared"
    /\ rpc = "off"
    /\ rpc' = "idle"
    /\ mpc' = "running"
    /\ UNCHANGED <<script, written, stream, pos, buffer, log, codecVars, csvVars, toolVars, threadVars>>

\* custom_receiver: stop_event is not set, ser.in_waiting = n > 0 (the bytes
\* that reached the port and were not read, and those arriving just now),
\* data = ser.read(n), buffer.extend(data)
RecvRead ==
    /\ rpc = "idle"
    /\ ~stop_event
    /\ \E n \in 1..(Len(stream) - pos) :
          /\ pos + n >= arrived
          /\ buffer' = buffer \o SubSeq(stream, pos + 1, pos + n)
          /\ pos' = pos + n
          /\ arrived' = pos + n
    /\ rpc' = "drain"
    /\ UNCHANGED <<script, mpc, written, stream, log, codecVars, csvVars, toolVars,
                   stop_event, SEND_QUEUE, enqueued, tpc, packet, sent, produced>>

\* the end marker of the frame handed over stays in the buffer
TakeFrame_keeping_end ==
    /\ rpc = "drain"
    /\ Len(buffer) >= 2
    /\ HeaderOk(buffer)
    /\ Len(buffer) >= frame_length(buffer[2])
    /\ LET frame_data == SubSeq(buffer, 1, frame_length(buffer[2]))
       IN  /\ buffer' = SubSeq(buffer, frame_length(buffer[2]), Len(buffer))
           /\ log' = Append(log, LogEntry(pos - Len(buffer), frame_data))
    /\ UNCHANGED <<script, mpc, written, stream, pos, rpc, codecVars, csvVars, toolVars, threadVars>>

\* inner loop: a complete frame is at the head of the buffer; it is cut out
\* and handed to parse_can_frame
TakeFrame ==
    /\ rpc = "drain"
    /\ Len(buffer) >= 2
    /\ HeaderOk(buffer)
    /\ Len(buffer) >= frame_length(buffer[2])
    /\ LET frame_data == SubSeq(buffer, 1, frame_length(buffer[2]))
       IN  /\ buffer' = SubSeq(buffer, frame_length(buffer[2]) + 1, Len(buffer))
           /\ log' = Append(log, LogEntry(pos - Len(buffer), frame_data))
    /\ UNCHANGED <<script, mpc, written, stream, pos, rpc, codecVars, csvVars, toolVars, threadVars>>

\* an incomplete frame makes the receiver throw the buffer away
WaitMore_discarding ==
    /\ rpc = "drain"
    /\ Len(buffer) >= 2
    /\ HeaderOk(buffer)
    /\ Len(buffer) < frame_length(buffer[2])
    /\ buffer' = <<>>
    /\ rpc' = "idle"
    /\ UNCHANGED <<script, mpc, written, stream, pos, log, codecVars, csvVars, toolVars, threadVars>>

\* an incomplete frame is treated like a bad header: its first byte is dropped
WaitMore_popping ==
    /\ rpc = "drain"
    /\ Len(buffer) >= 2
    /\ HeaderOk(buffer)
    /\ Len(buffer) < frame_length(buffer[2])
    /\ buffer' = Tail(buffer)
    /\ UNCHANGED <<script, mpc, written, stream, pos, log, rpc, codecVars, csvVars, toolVars, threadVars>>

\* inner loop: the frame at the head is incomplete; break and wait for data
WaitMore ==
    /\ rpc = "drain"
    /\ Len(buffer) >= 2
    /\ HeaderOk(buffer)
    /\ Len(buffer) < frame_length(buffer[2])
    /\ rpc' = "idle"
    /\ UNCHANGED <<script, mpc, written, stream, pos, buffer, log, codecVars, csvVars, toolVars, threadVars>>

\* an invalid header makes the receiver drop the header and the control byte
DropByte_both ==
    /\ rpc = "drain"
    /\ Len(buffer) >= 2
    /\ ~HeaderOk(buffer)
    /\ buffer' = Tail(Tail(buffer))
    /\ UNCHANGED <<script, mpc, written, stream, pos, log, rpc, codecVars, csvVars, toolVars, threadVars>>

\* an invalid header makes the receiver empty its buffer
DropByte_flushing ==
    /\ rpc = "drain"
    /\ Len(buffer) >= 2
    /\ ~HeaderOk(buffer)
    /\ buffer' = <<>>
    /\ UNCHANGED <<script, mpc, written, stream, pos, log, rpc, codecVars, csvVars, toolVars, threadVars>>

\* inner loop: no header at the head; buffer.pop(0)
DropByte ==
    /\ rpc = "drain"
    /\ Len(buffer) >= 2
    /\ ~HeaderOk(buffer)
    /\ buffer' = Tail(buffer)
    /\ UNCHANGED <<script, mpc, written, stream, pos, log, rpc, codecVars, csvVars, toolVars, threadVars>>

\* the inner loop ends with two bytes still buffered
DrainExit_below_three ==
    /\ rpc = "drain"
    /\ Len(buffer) < 3
    /\ rpc' = "idle"
    /\ UNCHANGED <<script, mpc, written, stream, pos, buffer, log, codecVars, csvVars, toolVars, threadVars>>

\* the inner loop goes on while one byte is buffered
DrainExit_at_empty ==
    /\ rpc = "drain"
    /\ Len(buffer) < 1
    /\ rpc' = "idle"
    /\ UNCHANGED <<script, mpc, written, stream, pos, buffer, log, codecVars, csvVars, toolVars, threadVars>>

\* inner loop ends: fewer than 2 bytes are buffered
DrainExit ==
    /\ rpc = "drain"
    /\ Len(buffer) < 2
    /\ rpc' = "idle"
    /\ UNCHANGED <<script, mpc, written, stream, pos, buffer, log, codecVars, csvVars, toolVars, threadVars>>

\* receive.py main loop: data = ser.read(2) on a port opened without a
\* timeout returns when two bytes have come; a header sends the loop on to the
\* body, anything else is dropped and the next two bytes are read
ReadHeader ==
    /\ script = "receive.py"
    /\ mpc = "configured"
    /\ rpc \in {"off", "header"}
    /\ Len(stream) - pos >= 2
    /\ LET data == SubSeq(stream, pos + 1, pos + 2)
       IN  IF HeaderOk(data)
           THEN buffer' = data /\ rpc' = "body"
           ELSE buffer' = <<>> /\ rpc' = "header"
    /\ pos' = pos + 2
    /\ UNCHANGED <<script, mpc, written, stream, log, codecVars, csvVars, toolVars, threadVars>>

\* receive.py main loop: data2 = ser.read(len2) returns when len2 bytes have
\* come; the frame or "Receive Packet header Error" is printed
ReadBody ==
    /\ script = "receive.py"
    /\ rpc = "body"
    /\ Len(stream) - pos >= len2_of(buffer[2])
    /\ LET data2 == SubSeq(stream, pos + 1, pos + len2_of(buffer[2]))
       IN  log' = Append(log, ReceiveEntry(pos - 2, buffer, data2))
    /\ pos' = pos + len2_of(buffer[2])
    /\ buffer' = <<>>
    /\ rpc' = "header"
    /\ UNCHANGED <<script, mpc, written, stream, codecVars, csvVars, toolVars, threadVars>>

Next ==
    \/ SendConfiguration
    \/ ResetInputBuffer
    \/ StartReceiver
    \/ RecvRead
    \/ TakeFrame
    \/ WaitMore
    \/ DropByte
    \/ DrainExit
    \/ ReadHeader
    \/ ReadBody

Spec == Init /\ [][Next]_vars

(***************************************************************************)
(* Threads: the producers, queue and writer of test_system_monitor.py, and  *)
(* the mains of loop-c.py and single-loop-b.py with their test frames and   *)
(* the stop_event of loop-c.py.                                             *)
(***************************************************************************)
RECURSIVE Flatten(_)
\* the byte strings of a sequence, one after the other
Flatten(ss) == IF ss = <<>> THEN <<>> ELSE ss[1] \o Flatten(Tail(ss))

\* a calculate_checksum that sums the whole packet, AA 55 included
calculate_checksum_with_header(data) ==
    And(SumAll(data), 255)

\* test_system_monitor.py calculate_checksum: sum(data[2:]) & 0xff
test_system_monitor_calculate_checksum(data) ==
    And(SumAll(SubSeq(data, 3, Len(data))), 255)

\* data_generator_thread: full_packet built around raw_data
full_packet_of(raw_data) ==
    LET packet_header == <<170, 85, 1, 1, 1>>
        reserved == <<0>>
        data_to_checksum == packet_header \o raw_data \o reserved
    IN  data_to_checksum \o <<test_system_monitor_calculate_checksum(data_to_checksum)>>

\* values SmoothDataGenerator can return for cpu1..cpu3 and memory
SmoothReadings == {<<10, 10, 10, 40>>, <<8, 12, 28, 36>>}

\* a distance RadarDataGenerator can return for each radar on its first round
RadarDistances == {700}

\* generator.generate_data() of the generator thread g that has produced k
\* packets: SmoothDataGenerator for GeneratorA, RadarDataGenerator (radar
\* number 1..4 in turn, distance as two bytes big-endian) for GeneratorB
generate_data(g, k) ==
    IF g = "GeneratorA"
    THEN {<<9, 2, 0, 0, 8>> \o r \o <<2, 2, 2, 2>> : r \in SmoothReadings}
    ELSE LET radar_id == (k % 4) + 1
         IN  {<<32 + radar_id, 5, 0, 0, 4, radar_id, 131, d \div 256, d % 256, 0, 0, 0, 0>> :
                 d \in RadarDistances}

\* how many packets a generator produces in a run at most
MaxPuts == 2

\* how many bytes one write to the port device takes at most
ChunkLen == 10

\* how many test frames each main sends (range(10); while count < 1)
TestFrames(s) == IF s = "loop-c.py" THEN 10 ELSE 1

\* what reaches the port in a loop-c.py run: nothing, the test frame, the
\* test frame after a stray header byte, two test frames
ThreadStreams == {<<>>, test_frame, <<170>> \o test_frame, test_frame \o test_frame}

ThreadsInit ==
    /\ script \in {"test_system_monitor.py", "loop-c.py", "single-loop-b.py"}
    /\ mpc = "start"
    /\ written = <<>>
    /\ stream \in (IF script = "loop-c.py" THEN ThreadStreams ELSE {<<>>})
    /\ pos = 0
    /\ buffer = <<>>
    /\ log = <<>>
    /\ rpc = "off"
    /\ ThreadsIdle
    /\ CodecIdle
    /\ CsvIdle
    /\ ToolsIdle

\* bytes reach the port before the receiver thread runs
PortArrive ==
    /\ script = "loop-c.py"
    /\ rpc = "off"
    /\ mpc \in {"start", "configured"}
    /\ \E n \in 1..(Len(stream) - arrived) : arrived' = arrived + n
    /\ UNCHANGED <<sessionVars, codecVars, csvVars, toolVars,
                   stop_event, SEND_QUEUE, enqueued, tpc, packet, sent, produced>>

\* main of loop-c.py (for count in range(10)) and of single-loop-b.py (while
\* count < 1): ser.write(test_frame)
SendTestFrame ==
    /\ \/ script = "loop-c.py" /\ mpc = "running" /\ ~stop_event
       \/ script = "single-loop-b.py" /\ mpc = "configured"
    /\ Len(written) - 1 < TestFrames(script)
    /\ written' = Append(written, test_frame)
    /\ UNCHANGED <<script, mpc, stream, pos, buffer, log, rpc, codecVars, csvVars, toolVars, threadVars>>

\* single-loop-b.py main: the frames are sent; custom_receiver(ser) is called
\* and blocks in ser.read
EnterReceiver ==
    /\ script = "single-loop-b.py"
    /\ mpc = "configured"
    /\ Len(written) - 1 = TestFrames(script)
    /\ mpc' = "receiving"
    /\ UNCHANGED <<script, written, stream, pos, buffer, log, rpc, codecVars, csvVars, toolVars, threadVars>>

\* loop-c.py main: the loop is over (all frames sent, a send failed, or the
\* user interrupted); finally: stop_event.set()
MainFinally ==
    /\ script = "loop-c.py"
    /\ mpc = "running"
    /\ stop_event' = TRUE
    /\ mpc' = "stopping"
    /\ UNCHANGED <<script, written, stream, pos, buffer, log, rpc, codecVars, csvVars, toolVars,
                   arrived, SEND_QUEUE, enqueued, tpc, packet, sent, produced>>

\* loop-c.py main: time.sleep(1); ser.close()
MainClose ==
    /\ script = "loop-c.py"
    /\ mpc = "stopping"
    /\ mpc' = "done"
    /\ UNCHANGED <<script, written, stream, pos, buffer, log, rpc, codecVars, csvVars, toolVars, threadVars>>

\* custom_receiver: while not stop_event.is_set() ends the loop
RecvStop ==
    /\ rpc = "idle"
    /\ stop_event
    /\ rpc' = "done"
    /\ UNCHANGED <<script, mpc, written, stream, pos, buffer, log, codecVars, csvVars, toolVars, threadVars>>

\* what the session variables keep while a thread of test_system_monitor.py
\* takes a step that does not write to the port
MonitorKeeps == UNCHANGED <<script, mpc, written, stream, pos, buffer, log, rpc, codecVars, csvVars, toolVars, arrived>>

\* start_single_port_multi_sender: writer_thread.start(), threadA.start(),
\* threadB.start(), one after the other
StartThread ==
    /\ script = "test_system_monitor.py"
    /\ \/ /\ mpc = "start"
          /\ tpc' = [tpc EXCEPT !["SerialWriter"] = "open"]
          /\ mpc' = "writer_started"
       \/ /\ mpc = "writer_started"
          /\ tpc' = [tpc EXCEPT !["GeneratorA"] = "loop"]
          /\ mpc' = "A_started"
       \/ /\ mpc = "A_started"
          /\ tpc' = [tpc EXCEPT !["GeneratorB"] = "loop"]
          /\ mpc' = "waiting"
    /\ UNCHANGED <<script, written, stream, pos, buffer, log, rpc, codecVars, csvVars, toolVars,
                   stop_event, arrived, SEND_QUEUE, enqueued, packet, sent, produced>>

\* the user presses Ctrl+C while main sleeps in its loop: stop_event.set()
KeyboardInterrupt ==
    /\ script = "test_system_monitor.py"
    /\ mpc = "waiting"
    /\ stop_event' = TRUE
    /\ mpc' = "join_SerialWriter"
    /\ UNCHANGED <<script, written, stream, pos, buffer, log, rpc, codecVars, csvVars, toolVars,
                   arrived, SEND_QUEUE, enqueued, tpc, packet, sent, produced>>

\* writer_thread.join(), threadA.join(), threadB.join(): each returns once
\* its thread has ended
Join ==
    /\ script = "test_system_monitor.py"
    /\ \/ mpc = "join_SerialWriter" /\ tpc["SerialWriter"] = "done" /\ mpc' = "join_GeneratorA"
       \/ mpc = "join_GeneratorA" /\ tpc["GeneratorA"] = "done" /\ mpc' = "join_GeneratorB"
       \/ mpc = "join_GeneratorB" /\ tpc["GeneratorB"] = "done" /\ mpc' = "done"
    /\ UNCHANGED <<script, written, stream, pos, buffer, log, rpc, codecVars, csvVars, toolVars, threadVars>>

\* serial_writer_thread: serial.Serial(...) opens the port, or raises
\* SerialException and the thread ends
WriterOpen ==
    /\ tpc["SerialWriter"] = "open"
    /\ \E next \in {"loop", "done"} : tpc' = [tpc EXCEPT !["SerialWriter"] = next]
    /\ MonitorKeeps
    /\ UNCHANGED <<stop_event, SEND_QUEUE, enqueued, packet, sent, produced>>

\* the writer's loop does not look at stop_event
WriterCheck_ignoring_stop ==
    /\ tpc["SerialWriter"] = "loop"
    /\ tpc' = [tpc EXCEPT !["SerialWriter"] = "get"]
    /\ MonitorKeeps
    /\ UNCHANGED <<stop_event, SEND_QUEUE, enqueued, packet, sent, produced>>

\* serial_writer_thread: while not stop_event.is_set()
WriterCheck ==
    /\ tpc["SerialWriter"] = "loop"
    /\ tpc' = [tpc EXCEPT !["SerialWriter"] = IF stop_event THEN "done" ELSE "get"]
    /\ MonitorKeeps
    /\ UNCHANGED <<stop_event, SEND_QUEUE, enqueued, packet, sent, produced>>

\* the writer takes the packet that entered the queue last
WriterGet_lifo ==
    /\ tpc["SerialWriter"] = "get"
    /\ SEND_QUEUE # <<>>
    /\ packet' = SEND_QUEUE[Len(SEND_QUEUE)]
    /\ SEND_QUEUE' = SubSeq(SEND_QUEUE, 1, Len(SEND_QUEUE) - 1)
    /\ sent' = 0
    /\ tpc' = [tpc EXCEPT !["SerialWriter"] = "write"]
    /\ MonitorKeeps
    /\ UNCHANGED <<stop_event, enqueued, produced>>

\* serial_writer_thread: packet = SEND_QUEUE.get(timeout=0.1) returns
WriterGet ==
    /\ tpc["SerialWriter"] = "get"
    /\ SEND_QUEUE # <<>>
    /\ packet' = Head(SEND_QUEUE)
    /\ SEND_QUEUE' = Tail(SEND_QUEUE)
    /\ sent' = 0
    /\ tpc' = [tpc EXCEPT !["SerialWriter"] = "write"]
    /\ MonitorKeeps
    /\ UNCHANGED <<stop_event, enqueued, produced>>

\* serial_writer_thread: SEND_QUEUE.get times out with queue.Empty; continue
WriterEmpty ==
    /\ tpc["SerialWriter"] = "get"
    /\ SEND_QUEUE = <<>>
    /\ tpc' = [tpc EXCEPT !["SerialWriter"] = "loop"]
    /\ MonitorKeeps
    /\ UNCHANGED <<stop_event, SEND_QUEUE, enqueued, packet, sent, produced>>

\* serial_writer_thread: ser.write(bytes(packet)) puts out the next bytes of
\* the packet; after the last ones SEND_QUEUE.task_done() and the next turn
WriterWrite ==
    /\ tpc["SerialWriter"] = "write"
    /\ LET n == IF Len(packet) - sent > ChunkLen THEN ChunkLen ELSE Len(packet) - sent
       IN  /\ written' = Append(written, SubSeq(packet, sent + 1, sent + n))
           /\ sent' = sent + n
           /\ tpc' = [tpc EXCEPT !["SerialWriter"] =
                         IF sent + n = Len(packet) THEN "loop" ELSE "write"]
    /\ UNCHANGED <<script, mpc, stream, pos, buffer, log, rpc, codecVars, csvVars, toolVars,
                   stop_event, arrived, SEND_QUEUE, enqueued, packet, produced>>

\* data_generator_thread: while not stop_event.is_set()
GenCheck(g) ==
    /\ tpc[g] = "loop"
    /\ stop_event \/ produced[g] < MaxPuts
    /\ tpc' = [tpc EXCEPT ![g] = IF stop_event THEN "done" ELSE "put"]
    /\ MonitorKeeps
    /\ UNCHANGED <<stop_event, SEND_QUEUE, enqueued, packet, sent, produced>>

\* data_generator_thread: raw_data = generator.generate_data(), the packet is
\* built, SEND_QUEUE.put(full_packet), time.sleep(delay)
GenPut(g) ==
    /\ tpc[g] = "put"
    /\ \E raw_data \in generate_data(g, produced[g]) :
          /\ SEND_QUEUE' = Append(SEND_QUEUE, full_packet_of(raw_data))
          /\ enqueued' = Append(enqueued, full_packet_of(raw_data))
    /\ produced' = [produced EXCEPT ![g] = produced[g] + 1]
    /\ tpc' = [tpc EXCEPT ![g] = "loop"]
    /\ MonitorKeeps
    /\ UNCHANGED <<stop_event, packet, sent>>

\* one step of the writer thread, of a generator thread, of the receiver
\* thread of loop-c.py, and of a main
WriterStep == WriterOpen \/ WriterCheck \/ WriterGet \/ WriterEmpty \/ WriterWrite
GeneratorStep(g) == GenCheck(g) \/ GenPut(g)
ReceiverStep == RecvStop \/ RecvRead \/ TakeFrame \/ WaitMore \/ DropByte \/ DrainExit
MainStep ==
    \/ SendConfiguration \/ ResetInputBuffer \/ StartReceiver \/ SendTestFrame
    \/ EnterReceiver \/ MainClose \/ StartThread \/ Join

ThreadsNext ==
    \/ MainStep
    \/ MainFinally
    \/ KeyboardInterrupt
    \/ PortArrive
    \/ ReceiverStep
    \/ WriterStep
    \/ \E g \in Generators : GeneratorStep(g)

SpecThreads == ThreadsInit /\ [][ThreadsNext]_vars

\* a step of any thread
ThreadStep ==
    MainStep \/ ReceiverStep \/ WriterStep \/ \E g \in Generators : GeneratorStep(g)

\* the scheduler keeps running threads: while some thread can take a step,
\* some thread eventually takes one (no thread is promised a turn of its
\* own); when the user interrupts and what the port receives is left open
FairSpecThreads == SpecThreads /\ WF_vars(ThreadStep)

(***************************************************************************)
(* single-loop-test.py: main writes the configuration command, starts       *)
(* receiver_thread and sends its frame once a second.                       *)
(***************************************************************************)
\* bytes.hex(): two lower-case digits for every byte
bytes_hex(bs) ==
    Flatten([k \in 1..Len(bs) |->
                <<HexDigitsLower[(bs[k] \div 16) + 1], HexDigitsLower[(bs[k] % 16) + 1]>>])

\* receiver_thread: total_len, the bytes read after the first two
total_len_of(ctrl) ==
    LET frame_len == And(ctrl, 15)
    IN  IF And(ctrl, 32) = 0 THEN frame_len + 3 ELSE frame_len + 5

\* receiver_thread: the RECV line for the two bytes `data` and the bytes
\* `remaining_data`: can_id printed with format 08X, can_data with hex()
recv_line(data, remaining_data) ==
    LET frame_len == And(data[2], 15)
        slice(first) == SubSeq(remaining_data, first + 1,
                               IF first + frame_len < Len(remaining_data)
                               THEN first + frame_len ELSE Len(remaining_data))
    IN  IF And(data[2], 32) = 0
        THEN [kind |-> "RECV",
              ID |-> Hex02X(0) \o Hex02X(0)
                       \o Hex02X(remaining_data[2]) \o Hex02X(remaining_data[1]),
              Data |-> bytes_hex(slice(2))]
        ELSE [kind |-> "RECV",
              ID |-> Hex02X(remaining_data[4]) \o Hex02X(remaining_data[3])
                       \o Hex02X(remaining_data[2]) \o Hex02X(remaining_data[1]),
              Data |-> bytes_hex(slice(4))]

\* receiver_thread: what one frame adds to the output: the RECV line, with
\* full_frame and the stream offset of its first byte
recv_entries(at, data, remaining_data) ==
    <<[at |-> at, window |-> data \o remaining_data,
       report |-> recv_line(data, remaining_data)]>>

\* how many frames main sends before the run is cut off (its loop has no end)
MaxSends == 2

\* what reaches the port: up to two of the pieces of Segments, and a frame
\* that declares 15 data bytes
TestStreams == SegmentStreams(2) \cup {FrameOfControl(207)}

TestInit ==
    /\ script = "single-loop-test.py"
    /\ mpc = "start"
    /\ written = <<>>
    /\ stream \in TestStreams
    /\ pos = 0
    /\ buffer = <<>>
    /\ log = <<>>
    /\ rpc = "off"
    /\ ThreadsIdle
    /\ CodecIdle
    /\ CsvIdle
    /\ ToolsIdle

\* bytes of the stream reach the port
TestArrive ==
    /\ mpc # "closed"
    /\ \E n \in 1..(Len(stream) - arrived) : arrived' = arrived + n
    /\ UNCHANGED <<sessionVars, codecVars, csvVars, toolVars,
                   stop_event, SEND_QUEUE, enqueued, tpc, packet, sent, produced>>

\* main: recv_thread.start() after the configuration command and the sleep
TestStartReceiver ==
    /\ script = "single-loop-test.py"
    /\ mpc = "configured"
    /\ mpc' = "sending"
    /\ rpc' = "header"
    /\ UNCHANGED <<script, written, stream, pos, buffer, log, codecVars, csvVars, toolVars, threadVars>>

\* main: ser.write(can_frame), once a second
TestSend ==
    /\ script = "single-loop-test.py"
    /\ mpc = "sending"
    /\ Len(written) < 1 + MaxSends
    /\ written' = Append(written, test_frame)
    /\ UNCHANGED <<script, mpc, stream, pos, buffer, log, rpc, codecVars, csvVars, toolVars, threadVars>>

\* main: KeyboardInterrupt, finally: ser.close(); the daemon thread ends with
\* the process
TestInterrupt ==
    /\ script = "single-loop-test.py"
    /\ mpc = "sending"
    /\ mpc' = "closed"
    /\ UNCHANGED <<script, written, stream, pos, buffer, log, rpc, codecVars, csvVars, toolVars, threadVars>>

\* receiver_thread: ser.in_waiting >= 2, data = ser.read(2), header test
TestReadHeader ==
    /\ script = "single-loop-test.py"
    /\ mpc = "sending"
    /\ rpc = "header"
    /\ arrived - pos >= 2
    /\ LET data == SubSeq(stream, pos + 1, pos + 2)
       IN  IF HeaderOk(data)
           THEN buffer' = data /\ rpc' = "body"
           ELSE buffer' = <<>> /\ rpc' = "header"
    /\ pos' = pos + 2
    /\ UNCHANGED <<script, mpc, written, stream, log, codecVars, csvVars, toolVars, threadVars>>

\* receiver_thread: remaining_data = ser.read(total_len) returns when that
\* many bytes have come; the RECV line is printed
TestReadBody ==
    /\ script = "single-loop-test.py"
    /\ mpc = "sending"
    /\ rpc = "body"
    /\ arrived - pos >= total_len_of(buffer[2])
    /\ LET remaining_data == SubSeq(stream, pos + 1, pos + total_len_of(buffer[2]))
       IN  log' = log \o recv_entries(pos - 2, buffer, remaining_data)
    /\ pos' = pos + total_len_of(buffer[2])
    /\ buffer' = <<>>
    /\ rpc' = "header"
    /\ UNCHANGED <<script, mpc, written, stream, codecVars, csvVars, toolVars, threadVars>>

TestNext ==
    \/ SendConfiguration
    \/ TestArrive
    \/ TestStartReceiver
    \/ TestSend
    \/ TestInterrupt
    \/ TestReadHeader
    \/ TestReadBody

SpecTest == TestInit /\ [][TestNext]_vars

(***************************************************************************)
(* final_convert.py: process_csv_to_can turns the rows of a CSV file into   *)
(* payloads and writes them to a second CSV file.                           *)
(***************************************************************************)
\* process_csv_to_can: TARGET_GEAR = 0x04
CSV_TARGET_GEAR == 4
\* process_csv_to_can: ALIVE_COUNTER_STEP = 0x10
ALIVE_COUNTER_STEP == 16
\* process_csv_to_can: ANGLE_DEG_TO_RAW = 100
ANGLE_DEG_TO_RAW == 100

Digits == <<"0", "1", "2", "3", "4", "5", "6", "7", "8", "9">>
IsDigits(t) == \A i \in 1..Len(t) : \E d \in 1..10 : Digits[d] = t[i]

RECURSIVE DigitsValue(_)
\* the number a string of decimal digits writes
DigitsValue(t) ==
    IF t = <<>> THEN 0
    ELSE (10 * DigitsValue(SubSeq(t, 1, Len(t) - 1)))
             + ((CHOOSE d \in 1..10 : Digits[d] = t[Len(t)]) - 1)

\* float(text) for the cell texts of the input files: an optional minus sign,
\* digits, and optionally a point with one or two digits; the value is kept
\* in hundredths.  Any other text of the input files ("abc", the empty text)
\* makes float raise ValueError.  The fractions used are 0, 1/4, 1/2 and 3/4,
\* which a float holds exactly, so the arithmetic below is the float's.
float_of(text) ==
    LET neg   == text # <<>> /\ text[1] = "-"
        body  == IF neg THEN Tail(text) ELSE text
        dots  == {i \in 1..Len(body) : body[i] = "."}
        p     == IF dots = {} THEN Len(body) + 1
                 ELSE CHOOSE i \in dots : \A j \in dots : i <= j
        whole == SubSeq(body, 1, p - 1)
        frac  == SubSeq(body, p + 1, Len(body))
        ok    == /\ whole # <<>> /\ IsDigits(whole) /\ IsDigits(frac)
                 /\ (dots = {} => frac = <<>>)
                 /\ (dots # {} => Len(frac) \in 1..2)
        mag   == (100 * DigitsValue(whole))
                     + (IF Len(frac) = 1 THEN 10 * DigitsValue(frac) ELSE DigitsValue(frac))
    IN  IF ~ok THEN [raised |-> TRUE, hundredths |-> 0]
        ELSE [raised |-> FALSE, hundredths |-> IF neg THEN -mag ELSE mag]

\* int(x) of a float x given in hundredths: the fraction is cut off
int_of(hundredths) ==
    IF hundredths < 0 THEN -((-hundredths) \div 100) ELSE hundredths \div 100

\* one iteration of the loop of process_csv_to_can on `row` with the counter
\* at `counter`: "skipped" (ValueError caught inside the loop), "failed" (an
\* exception that is no ValueError leaves the loop) or "recorded" with the
\* dict appended to output_data.  Angle_deg, the angle printed with two
\* decimals, is left out of the dict; Speed_mm/s is kept as the integer.
process_row(row, index, counter) ==
    LET speed == float_of(row.speed)
        angle_deg == float_of(row.angle)
        linear_velocity_mms == int_of(speed.hundredths)
        steering_angle_raw == int_of(angle_deg.hundredths * ANGLE_DEG_TO_RAW)
        hex_data_of_row == final_convert_build_vehicle_control_data(
                               CSV_TARGET_GEAR, linear_velocity_mms,
                               steering_angle_raw, counter)
    IN  IF speed.raised \/ angle_deg.raised THEN [outcome |-> "skipped", entry |-> <<>>]
        ELSE IF hex_data_of_row.raised THEN [outcome |-> "failed", entry |-> <<>>]
        ELSE [outcome |-> "recorded",
              entry |-> [Index |-> index + 1,
                         Speed_mms |-> linear_velocity_mms,
                         Angle_Clamped |-> IF steering_angle_raw > 32767
                                              \/ steering_angle_raw < -32768
                                           THEN "Yes" ELSE "No",
                         AliveCounter_Hex |-> Hex02X(counter),
                         HexData |-> hex_data_of_row.value]]

\* rows tried: two that convert and encode, two with a text that is no
\* number, one with a negative speed, one with an angle beyond 327.67 degrees
GoodRows == {[speed |-> <<"3", "0", "0", "0">>, angle |-> <<"1", "0", ".", "0">>],
             [speed |-> <<"5", "0", "0", ".", "5">>, angle |-> <<"-", "5", ".", "2", "5">>]}
TextRows == {[speed |-> <<"a", "b", "c">>, angle |-> <<"1", ".", "0">>],
             [speed |-> <<"3", ".", "0">>, angle |-> <<>>]}
RangeRows == {[speed |-> <<"-", "1">>, angle |-> <<"0", ".", "0">>],
              [speed |-> <<"3", ".", "0">>, angle |-> <<"3", "2", "7", ".", "7", "5">>]}
RowKinds == GoodRows \cup TextRows \cup RangeRows

MaxRows == 3
RECURSIVE RowLists(_)
RowLists(k) ==
    IF k = 0 THEN {<<>>}
    ELSE LET shorter == RowLists(k - 1)
         IN  shorter \cup {Append(rs, r) : rs \in shorter, r \in RowKinds}

\* files long enough for the counter to come round: two rows more than one
\* cycle of the counter, all good, or with one row that is no number among them
LongLen == (256 \div ALIVE_COUNTER_STEP) + 2
LongFiles ==
    LET good == CHOOSE r \in GoodRows : r.speed = <<"3", "0", "0", "0">>
        bad  == CHOOSE r \in TextRows : r.angle = <<>>
        all  == [i \in 1..LongLen |-> good]
    IN  {all} \cup {[all EXCEPT ![j] = bad] : j \in {1, 9, LongLen - 1}}

CsvFiles == RowLists(MaxRows) \cup LongFiles

CsvInit ==
    /\ csv_file \in {"missing", "no_columns", "ok"}
    /\ csv_rows \in (IF csv_file = "ok" THEN CsvFiles ELSE {<<>>})
    /\ row_index = 0
    /\ csv_alive_counter = 0
    /\ output_data = <<>>
    /\ warnings = <<>>
    /\ exported = NoFile
    /\ fpc = "start"
    /\ SessionIdle
    /\ CodecIdle
    /\ ToolsIdle

\* process_csv_to_can up to the loop: a missing input file or a file without
\* the columns speed and angle ends the function
CsvOpen ==
    /\ fpc = "start"
    /\ fpc' = IF csv_file = "ok" THEN "rows" ELSE "returned"
    /\ UNCHANGED <<csv_file, csv_rows, row_index, csv_alive_counter, output_data,
                   warnings, exported, codecVars, sessionVars, threadVars, toolVars>>

\* the counter is advanced for every row, skipped or not
CsvRow_counting_all ==
    /\ fpc = "rows"
    /\ row_index < Len(csv_rows)
    /\ LET r == process_row(csv_rows[row_index + 1], row_index, csv_alive_counter)
       IN  /\ output_data' = IF r.outcome = "recorded"
                             THEN Append(output_data, r.entry) ELSE output_data
           /\ csv_alive_counter' = (csv_alive_counter + ALIVE_COUNTER_STEP) % 256
           /\ warnings' = IF r.outcome = "skipped"
                          THEN Append(warnings, row_index + 1) ELSE warnings
           /\ fpc' = IF r.outcome = "failed" THEN "failed" ELSE "rows"
    /\ row_index' = row_index + 1
    /\ UNCHANGED <<csv_file, csv_rows, exported, codecVars, sessionVars, threadVars, toolVars>>

\* one iteration of `for row_index, row in enumerate(reader)`: the row is
\* recorded and the counter advanced, or ValueError is caught and a warning
\* printed, or another exception ends the function in the outer handler
CsvRow ==
    /\ fpc = "rows"
    /\ row_index < Len(csv_rows)
    /\ LET r == process_row(csv_rows[row_index + 1], row_index, csv_alive_counter)
       IN  /\ output_data' = IF r.outcome = "recorded"
                             THEN Append(output_data, r.entry) ELSE output_data
           /\ csv_alive_counter' = IF r.outcome = "recorded"
                                   THEN (csv_alive_counter + ALIVE_COUNTER_STEP) % 256
                                   ELSE csv_alive_counter
           /\ warnings' = IF r.outcome = "skipped"
                          THEN Append(warnings, row_index + 1) ELSE warnings
           /\ fpc' = IF r.outcome = "failed" THEN "failed" ELSE "rows"
    /\ row_index' = row_index + 1
    /\ UNCHANGED <<csv_file, csv_rows, exported, codecVars, sessionVars, threadVars, toolVars>>

\* after the loop: export_to_csv(output_data, output_filepath) writes the
\* file unless output_data is empty
CsvExport ==
    /\ fpc = "rows"
    /\ row_index = Len(csv_rows)
    /\ exported' = IF output_data = <<>> THEN NoFile
                   ELSE [written |-> TRUE, rows |-> output_data]
    /\ fpc' = "done"
    /\ UNCHANGED <<csv_file, csv_rows, row_index, csv_alive_counter, output_data,
                   warnings, codecVars, sessionVars, threadVars, toolVars>>

CsvNext == CsvOpen \/ CsvRow \/ CsvExport

SpecCsv == CsvInit /\ [][CsvNext]_vars

(***************************************************************************)
(* Claims about the vehicle-control codec (checked under SpecCodec).        *)
(***************************************************************************)
\* the arguments lie in the documented ranges
InCodecDomain ==
    /\ gear \in 0..15
    /\ velocity \in 0..65535
    /\ angle_raw \in -32768..32767
    /\ alive \in 0..255

\* the decoder returned these raw values
Decoded(g, v, a) ==
    /\ ~result.raised
    /\ result.fields.gear_raw = g
    /\ result.fields.linear_velocity_mms = v
    /\ result.fields.steering_angle_raw = a

\* C1 as stated: for arguments in the documented ranges, decoding the built
\* payload returns the same gear, velocity, angle_raw and alive_counter.
C1_RoundTripWithAlive ==
    (cpc = "parsed" /\ InCodecDomain) =>
        /\ Decoded(gear, velocity, angle_raw)
        /\ "alive_counter" \in DOMAIN result.fields
        /\ result.fields["alive_counter"] = alive

\* C1 amended: for arguments in the documented ranges, decoding the built
\* payload returns the same gear, velocity and angle_raw; the decoder returns
\* no alive counter, which is only byte 6 of the payload it was given.
C1_RoundTrip ==
    (cpc = "parsed" /\ InCodecDomain) =>
        /\ Decoded(gear, velocity, angle_raw)
        /\ "alive_counter" \notin DOMAIN result.fields
        /\ data_bytes[7] = alive

C1_Witness ==
    /\ cpc = "parsed" /\ ~result.raised
    /\ gear = 15 /\ velocity = 65535 /\ angle_raw = -32768 /\ alive = 255

\* byte 7 is the XOR of bytes 0..6
XorCheckPasses(d) == Len(d) = 8 /\ d[8] = XorAll(SubSeq(d, 1, 7))

\* C4: every built payload passes the XOR check (byte 7 = XOR of bytes 0..6),
\* and with any single bit of bytes 0..6 inverted it fails the check.
C4_Checksum ==
    /\ cpc = "bytes" => XorCheckPasses(data_bytes)
    /\ cpc = "flipped" => ~XorCheckPasses(data_bytes)

C4_Witness ==
    /\ cpc = "flipped" /\ alive = 16 /\ velocity = 3000
    /\ data_bytes[7] = 17

GoldenText == <<"8", "4", " ", "B", "B", " ", "1", "0", " ", "F", "A", " ",
                "0", "F", " ", "0", "0", " ", "0", "0", " ", "D", "A">>
GoldenBytes == <<132, 187, 16, 250, 15, 0, 0, 218>>

\* C6: build_vehicle_control_data(4, 3000, -95, 0) returns the text
\* "84 BB 10 FA 0F 00 00 DA", and parse_vehicle_control_data of the bytes
\* 84 BB 10 FA 0F 00 00 DA returns gear 4, velocity 3000 and angle_raw -95.
C6_GoldenVector ==
    /\ (cpc = "built" /\ gear = 4 /\ velocity = 3000 /\ angle_raw = -95 /\ alive = 0)
           => hex_string.value = GoldenText
    /\ (cpc = "parsed" /\ data_bytes = GoldenBytes) => Decoded(4, 3000, -95)

C6_Witness ==
    /\ cpc = "parsed" /\ data_bytes = GoldenBytes
    /\ hex_string.value = GoldenText

(***************************************************************************)
(* Claims about the serial session (checked under Spec).                    *)
(***************************************************************************)
\* the receiver has read the whole stream and finished draining
Final == rpc = "idle" /\ pos = Len(stream)

\* the reports of received CAN frames among the entries lg, in order
Reported(lg) ==
    LET frames == SelectSeq(lg, LAMBDA e : e.report.kind = "Receive CAN id")
    IN  [k \in 1..Len(frames) |-> frames[k].report]

\* C2: whenever the receiver is back at the top of its loop, the windows it
\* has handed to parse_can_frame and the buffer it keeps are those of one
\* read of all the bytes read so far, however they were split into reads.
C2_FragmentationInvariance ==
    rpc = "idle" =>
        LET one == DrainAll(SubSeq(stream, 1, pos), 0, <<>>)
        IN  buffer = one.buffer /\ log = one.log

\* a read ended inside a frame, after an earlier frame was handed over
C2_Witness ==
    /\ rpc = "idle" /\ pos < Len(stream)
    /\ Len(buffer) >= 2 /\ Len(log) >= 1 /\ log[1].at > 0

\* a valid frame (data length 0..8, end marker 55) starts at index i of st
ValidFrameAt(st, i) ==
    /\ i + 1 <= Len(st)
    /\ st[i] = 170
    /\ And(st[i + 1], 192) = 192
    /\ And(st[i + 1], 15) <= 8
    /\ i + frame_length(st[i + 1]) - 1 <= Len(st)
    /\ st[i + frame_length(st[i + 1]) - 1] = 85

\* st without its byte at index i
Without(st, i) == SubSeq(st, 1, i - 1) \o SubSeq(st, i + 1, Len(st))

\* the frames reported with the byte AB at index i are those reported without
\* it, and the frame that follows the byte is reported
SameAsWithout(i) ==
    /\ Reported(log) = Reported(DrainAll(Without(stream, i), 0, <<>>).log)
    /\ \E k \in 1..Len(log) :
          log[k].at = i /\ log[k].report.kind = "Receive CAN id"

\* C3 as stated: with a byte AB immediately before a valid frame anywhere in
\* the stream, the frames reported are exactly those reported without that
\* byte, and the frame after it is reported.
C3_ResyncAnywhere ==
    Final =>
        \A i \in 1..Len(stream) :
            (stream[i] = 171 /\ ValidFrameAt(stream, i + 1)) => SameAsWithout(i)

\* C3 amended: the same, provided the bytes before the AB leave no incomplete
\* frame (a header and control byte still waiting for its body) in the buffer.
C3_Resync ==
    Final =>
        \A i \in 1..Len(stream) :
            (/\ stream[i] = 171
             /\ ValidFrameAt(stream, i + 1)
             /\ Len(DrainAll(SubSeq(stream, 1, i - 1), 0, <<>>).buffer) < 2)
                => SameAsWithout(i)

C3_Witness ==
    /\ Final
    /\ Len(stream) > 11
    /\ ValidFrameAt(stream, 1)
    /\ stream[6] = 171
    /\ ValidFrameAt(stream, 7)
    /\ Len(Reported(log)) = 2

\* C5: a stream that is one built frame (identifier within 11 bits, or 29 bits
\* when extended; any remote flag; data of length 0..8) yields exactly one
\* window, and parse_can_frame reports the same identifier, frame type, frame
\* format and data.  The frame the scripts send (test_frame) is the layout's
\* frame for id 0x01234567, extended, data, 11 22 33 44 55 66 77 88.
C5_FrameRoundTrip ==
    /\ FrameBytes(WideOf(19088743), TRUE, FALSE, <<17, 34, 51, 68, 85, 102, 119, 136>>)
           = test_frame
    /\ Final =>
        \A e \in BuiltFrames :
            (/\ stream = e.bytes
             /\ IF e.p.ext THEN e.p.id.hi < 8192 ELSE e.p.id.hi = 0 /\ e.p.id.lo < 2048)
            => /\ Len(log) = 1
               /\ buffer = <<>>
               /\ log[1].window = stream
               /\ log[1].report =
                    [kind |-> "Receive CAN id",
                     id_val |-> e.p.id,
                     strFrameType |-> IF e.p.ext THEN "Extended Frame" ELSE "Standard Frame",
                     strFrameFormat |-> IF e.p.remote THEN "Remote Frame" ELSE "Data Frame",
                     data_bytes |-> e.p.data]

C5_Witness ==
    /\ Final
    /\ stream = FrameBytes(WideOf(536870911), TRUE, TRUE, <<17, 34, 51, 68, 85, 102, 119, 136>>)
    /\ Len(log) = 1
    /\ log[1].report.id_val = WideOf(536870911)

\* C7: when the window at the head of the buffer has a valid header and
\* control byte but does not end in 55, the receiver's step removes the whole
\* window from the buffer, reports no received frame for it, and goes on
\* scanning at the byte after the window; no logged window without the end
\* marker is ever reported as a received frame.
C7_BadEndDiscarded ==
    [][ /\ (/\ rpc = "drain"
            /\ Len(buffer) >= 2
            /\ HeaderOk(buffer)
            /\ Len(buffer) >= frame_length(buffer[2])
            /\ buffer[frame_length(buffer[2])] # 85)
           => /\ buffer' = SubSeq(buffer, frame_length(buffer[2]) + 1, Len(buffer))
              /\ rpc' = "drain"
              /\ Len(log') = Len(log) + 1
              /\ log'[Len(log')].window = SubSeq(buffer, 1, frame_length(buffer[2]))
              /\ log'[Len(log')].report.kind = "Invalid frame end marker"
        /\ \A k \in 1..Len(log') :
              log'[k].window[Len(log'[k].window)] # 85
                  => log'[k].report.kind # "Receive CAN id" ]_vars

C7_Witness ==
    /\ rpc = "drain"
    /\ Len(log) = 1
    /\ log[1].report.kind = "Invalid frame end marker"
    /\ Len(buffer) >= 2
    /\ pos - Len(buffer) = Len(log[1].window)

\* the CAN mode each script's comments say its command sets
IntendedCanMode(s) == IF s \in {"send.py", "receive.py"} THEN 0 ELSE 2

\* C8: every configuration command written is exactly 20 bytes: AA 55, the
\* CAN mode code at index 13, the auto-retransmit code at index 14, and at
\* index 19 the sum of bytes 2..18 modulo 256.
C8_ConfigLayout ==
    \A k \in 1..Len(written) :
        LET w == written[k]
        IN  /\ Len(w) = 20
            /\ w[1] = 170 /\ w[2] = 85
            /\ w[14] = IntendedCanMode(script)
            /\ w[15] = 0
            /\ w[20] = SumAll(SubSeq(w, 3, 19)) % 256

LoopbackCommand == <<170, 85, 18, 3, 2, 0, 0, 0, 0, 0, 0, 0, 0, 2, 0, 0, 0, 0, 0, 25>>

\* C9: the loopback command of loop-c.py and single-loop-b.py is the 20 bytes
\* AA 55 12 03 02, zeros, 02 at index 13, zeros, with the last byte the sum of
\* bytes 2..18 modulo 256; both ways of computing the checksum give the same
\* bytes.
C9_LoopbackChecksum ==
    /\ (mpc # "start" /\ script \in {"loop-c.py", "single-loop-b.py"})
          => /\ written[1] = LoopbackCommand
             /\ written[1][20] = SumAll(SubSeq(written[1], 3, 19)) % 256
    /\ send_configuration = set_can_configuration(2)

C9_Witness ==
    /\ script = "loop-c.py" /\ mpc = "configured"
    /\ Len(written) = 1 /\ Len(written[1]) = 20 /\ written[1][14] = 2 /\ written[1][20] = 25

\* C10: every frame reported as received has as many data bytes as the length
\* nibble of its control byte says (receive.py prints "No Data" for none), and
\* an identifier within 11 bits when standard and within 29 bits when extended.
C10_FrameInvariant ==
    \A k \in 1..Len(log) :
        log[k].report.kind = "Receive CAN id" =>
            /\ IF script = "receive.py" /\ And(log[k].window[2], 15) = 0
               THEN log[k].report.data_bytes = <<NoDataText>>
               ELSE Len(log[k].report.data_bytes) = And(log[k].window[2], 15)
            /\ IF And(log[k].window[2], 32) = 0
               THEN log[k].report.id_val.hi = 0 /\ log[k].report.id_val.lo < 2048
               ELSE log[k].report.id_val.hi < 8192

\* index i of the stream (from 1) was the head of the buffer at some time:
\* the receiver is past it and no window handed over contains it
HeadWasAt(i) ==
    /\ pos - Len(buffer) >= i
    /\ \A k \in 1..Len(log) : ~(log[k].at < i /\ i <= log[k].at + Len(log[k].window))

\* C11: when the buffer starts with AA followed by a byte whose top two bits
\* are not 11, the receiver's step removes exactly the AA and keeps scanning
\* at the second byte, reporting nothing; and once the stream is read, a
\* valid frame that starts right after an AA the receiver took as a header
\* candidate is reported.
C11_SpuriousHeader ==
    /\ [][ (/\ rpc = "drain"
            /\ Len(buffer) >= 2
            /\ buffer[1] = 170
            /\ And(buffer[2], 192) # 192)
           => /\ buffer' = Tail(buffer)
              /\ rpc' = "drain"
              /\ log' = log
              /\ pos' = pos ]_vars
    /\ [](Final =>
            \A i \in 1..Len(stream) :
                (stream[i] = 170 /\ ValidFrameAt(stream, i + 1) /\ HeadWasAt(i))
                => \E k \in 1..Len(log) :
                      /\ log[k].at = i
                      /\ log[k].report.kind = "Receive CAN id")

C11_Witness ==
    /\ Final
    /\ Len(stream) >= 2
    /\ stream[1] = 170 /\ ValidFrameAt(stream, 2)
    /\ Len(log) >= 1 /\ log[1].at = 1 /\ log[1].report.kind = "Receive CAN id"

\* a complete window is at the head of the buffer (line 30 of loop-c.py holds)
CanTakeFrame ==
    /\ Len(buffer) >= 2
    /\ HeaderOk(buffer)
    /\ Len(buffer) >= frame_length(buffer[2])

\* an iteration of the inner loop of custom_receiver that takes no window
OtherDrainStep == WaitMore \/ DropByte \/ DrainExit

\* the step just taken met malformed input: it dropped a byte, or logged a
\* window that is no received frame
MalformedStep ==
    \/ rpc = "drain" /\ Len(buffer) >= 2 /\ ~HeaderOk(buffer)
    \/ /\ Len(log') = Len(log) + 1
       /\ log'[Len(log')].report.kind # "Receive CAN id"

\* C12: the receiver never gets stuck.  Inside the inner loop an iteration is
\* always possible (a complete window at the head is taken, otherwise one of
\* the other branches is enabled); each iteration either removes at least one byte from the
\* buffer or leaves the loop, and it leaves only with fewer than 2 bytes
\* buffered or with an incomplete frame at the head, buffer untouched (so the
\* loop ends within Len(buffer) + 1 iterations); after malformed input the
\* receiver is still in the loop, scanning the rest of the same buffer; and
\* outside the loop the next read is possible whenever bytes remain.
C12_NeverStuck ==
    /\ [](rpc = "drain" => CanTakeFrame \/ ENABLED OtherDrainStep)
    /\ [](rpc = "idle" /\ pos < Len(stream) => ENABLED RecvRead)
    /\ [][ rpc = "drain" =>
             /\ Len(buffer') < Len(buffer) \/ rpc' = "idle"
             /\ CanTakeFrame =>
                   /\ Len(log') = Len(log) + 1
                   /\ Len(buffer') = Len(buffer) - frame_length(buffer[2])
             /\ rpc' = "idle" =>
                   /\ buffer' = buffer
                   /\ \/ Len(buffer) < 2
                      \/ HeaderOk(buffer) /\ Len(buffer) < frame_length(buffer[2])
             /\ MalformedStep =>
                   /\ rpc' = "drain"
                   /\ \E n \in 1..Len(buffer) :
                         buffer' = SubSeq(buffer, n + 1, Len(buffer)) ]_vars

\* after a window with a wrong end marker and a dropped byte, a frame was
\* received and the receiver is back at the top of its loop
C12_Witness ==
    /\ Final
    /\ Len(log) >= 2
    /\ log[1].report.kind = "Invalid frame end marker"
    /\ log[2].report.kind = "Receive CAN id"
    /\ log[2].at > Len(log[1].window)

\* C13: when the buffer starts with a valid header whose frame length exceeds
\* the bytes buffered, the iteration leaves the loop with buffer and log
\* untouched; the next read appends to that buffer only bytes the port
\* already holds (the next bytes of the stream, never more than have
\* arrived), and as soon as the buffered bytes reach the frame length the
\* next iteration hands over exactly that frame, from the offset where the
\* header was waiting.
C13_IncompleteFrameWaits ==
    [][ /\ (rpc = "drain" /\ Len(buffer) >= 2 /\ HeaderOk(buffer)
              /\ Len(buffer) < frame_length(buffer[2]))
           => /\ buffer' = buffer /\ log' = log /\ pos' = pos
              /\ rpc' = "idle"
        /\ (rpc = "idle" /\ Len(buffer) >= 2)
           => /\ HeaderOk(buffer)
              /\ Len(buffer) < frame_length(buffer[2])
              /\ pos' > pos /\ pos' <= Len(stream)
              /\ buffer' = buffer \o SubSeq(stream, pos + 1, pos')
              /\ log' = log
              /\ rpc' = "drain"
        /\ (rpc = "drain" /\ Len(buffer) >= 2 /\ HeaderOk(buffer)
              /\ Len(buffer) >= frame_length(buffer[2]))
           => /\ Len(log') = Len(log) + 1
              /\ log'[Len(log')].at = pos - Len(buffer)
              /\ log'[Len(log')].window =
                    SubSeq(stream, pos - Len(buffer) + 1,
                           pos - Len(buffer) + frame_length(buffer[2]))
              /\ buffer' = SubSeq(buffer, frame_length(buffer[2]) + 1, Len(buffer)) ]_vars

\* a frame was reported and the first bytes of the next one wait in the
\* buffer for a later read
C13_Witness ==
    /\ rpc = "idle"
    /\ pos < Len(stream)
    /\ Len(log) = 1
    /\ log[1].report.kind = "Receive CAN id"
    /\ log[1].at = 0
    /\ Len(buffer) >= 2 /\ HeaderOk(buffer)

(***************************************************************************)
(* Further claims about the vehicle-control codec (checked under SpecCodec). *)
(***************************************************************************)
\* parse_vehicle_control_data has been applied to data_bytes
WasParsed == cpc \in {"parsed", "parsed_altered"}

\* C14 as stated: parse_vehicle_control_data raises for every input whose
\* length is not exactly 8 bytes, shorter or longer, and returns a result
\* for every input of 8 bytes.
C14_ExactLength ==
    WasParsed => (result.raised <=> Len(data_bytes) # 8)

\* C14 amended: parse_vehicle_control_data raises for every input shorter
\* than 8 bytes and returns a result for every input of 8 bytes or more; for
\* a longer input the decoded fields are those of its first 8 bytes and
\* data_hex shows every byte.
C14_AtLeastLength ==
    WasParsed =>
        /\ result.raised <=> Len(data_bytes) < 8
        /\ ~result.raised =>
              LET first == parse_vehicle_control_data(SubSeq(data_bytes, 1, 8)).fields
              IN  /\ result.fields.gear_raw = first.gear_raw
                  /\ result.fields.gear_name = first.gear_name
                  /\ result.fields.linear_velocity_mms = first.linear_velocity_mms
                  /\ result.fields.steering_angle_raw = first.steering_angle_raw
                  /\ result.fields.data_hex = HexUpper(data_bytes)

\* inputs of 7, 8, 9 and 16 bytes were parsed: the 7-byte one raised, the
\* 16-byte one returned a result
C14_Witness ==
    /\ cpc = "parsed_altered"
    /\ Len(data_bytes) = 16
    /\ ~result.raised
    /\ result.fields.linear_velocity_mms = 3000

\* C15 as stated: a velocity handed to build_vehicle_control_data as a signed
\* 16-bit value, negative ones included (as convert_to_new_protocol hands
\* over the velocity it parsed from the 4-byte data), is encoded without
\* error, and the decoder returns the unsigned 16-bit value with the same
\* bits.
C15_SignedVelocity ==
    /\ (/\ cpc \in {"converted", "convert_error"}
        /\ Len(data_bytes) = 4
        /\ angle_raw \in -32768..32767)
       => /\ ~hex_string.raised
          /\ parse_vehicle_control_data(fromhex(hex_string.value).value)
                .fields.linear_velocity_mms = velocity % 65536
    /\ (/\ cpc \in {"built", "build_error"}
        /\ velocity \in -32768..32767
        /\ angle_raw \in -32768..32767)
       => ~hex_string.raised

(***************************************************************************)
(* Claims about the threads (checked under SpecThreads, FairSpecThreads).   *)
(***************************************************************************)
\* the writer is inside ser.write
Writing == tpc["SerialWriter"] = "write"

\* the packets of GeneratorB (CAN id 0x5xx) among ps, in order
RadarPackets(ps) == SelectSeq(ps, LAMBDA p : p[7] = 5)

\* C16: with the two generator threads and the writer thread running, the
\* bytes on the port are the packets that entered SEND_QUEUE, whole and in
\* the order they entered, followed only by the first bytes of the packet
\* the writer is writing; the packets not yet written are those still queued,
\* in order; every packet is a complete one built by a generator (AA 55, 20
\* bytes, checksum), and the radar packets on the port carry the radar
\* numbers 1, 2, ... in the order GeneratorB produced them.
C16_NoInterleaving ==
    script = "test_system_monitor.py" =>
        LET n == Len(enqueued) - Len(SEND_QUEUE) - (IF Writing THEN 1 ELSE 0)
            whole == SubSeq(enqueued, 1, n)
            radar == RadarPackets(whole)
        IN  /\ n >= 0
            /\ Flatten(written) =
                  Flatten(whole) \o (IF Writing THEN SubSeq(packet, 1, sent) ELSE <<>>)
            /\ Writing => packet = enqueued[n + 1] /\ sent < Len(packet)
            /\ SEND_QUEUE = SubSeq(enqueued, Len(enqueued) - Len(SEND_QUEUE) + 1, Len(enqueued))
            /\ \A k \in 1..Len(enqueued) :
                  \E g \in Generators, j \in 0..MaxPuts :
                    \E raw_data \in generate_data(g, j) :
                      /\ enqueued[k] = full_packet_of(raw_data)
                      /\ Len(enqueued[k]) = 20
                      /\ enqueued[k][20] = SumAll(SubSeq(enqueued[k], 3, 19)) % 256
            /\ \A k \in 1..Len(radar) : radar[k][11] = ((k - 1) % 4) + 1

\* a packet of each generator is on the port, the writer is half way through
\* the next packet and another one waits in the queue
C16_Witness ==
    /\ Writing /\ sent > 0
    /\ Len(written) >= 5
    /\ SEND_QUEUE # <<>>
    /\ enqueued[1][6] # enqueued[2][6]

\* no thread is running: the writer, the generators and the receiver thread
\* have ended or were never started, and the joins of test_system_monitor.py
\* have returned
AllStopped ==
    /\ \A t \in Threads : tpc[t] \in {"off", "done"}
    /\ rpc \in {"off", "done"}
    /\ script = "test_system_monitor.py" => mpc = "done"

BodyLen(ctrl) == And(ctrl, 15) + (IF And(ctrl, 32) # 0 THEN 4 ELSE 2) + 1

\* C19: for every control byte with bits 7..6 set (length nibbles 0..15), both
\* receivers take BodyLen(ctrl) bytes after the header and the control byte:
\* receive.py reads exactly that many bytes as the body, and the window
\* custom_receiver cuts from its buffer is that many bytes plus 2
C19_BodyLength ==
    /\ \A ctrl \in ControlBytes :
          /\ len2_of(ctrl) = BodyLen(ctrl)
          /\ frame_length(ctrl) = BodyLen(ctrl) + 2
    /\ [][ Len(log') = Len(log) + 1 =>
             LET e == log'[Len(log')]
                 ctrl == e.window[2]
             IN  /\ ctrl \in ControlBytes
                 /\ e.window = SubSeq(stream, e.at + 1, e.at + 2 + BodyLen(ctrl))
                 /\ Len(e.window) = 2 + BodyLen(ctrl)
                 /\ IF script = "receive.py"
                    THEN /\ rpc = "body" /\ buffer = <<170, ctrl>>
                         /\ pos' = pos + BodyLen(ctrl)
                         /\ pos' = e.at + 2 + BodyLen(ctrl)
                    ELSE /\ Len(buffer') = Len(buffer) - (BodyLen(ctrl) + 2)
                         /\ buffer = e.window \o buffer' ]_vars

\* C19 witness: receive.py has read an extended frame that declares 15 data
\* bytes (22 bytes in all) and then reported the frame that follows it
C19_Witness ==
    /\ script = "receive.py"
    /\ stream = FrameOfControl(239) \o FrameBytes(WideOf(291), FALSE, FALSE, <<>>)
    /\ Len(log) = 2
    /\ Len(log[1].window) = 22
    /\ log[2].at = 22
    /\ log[2].report.kind = "Receive CAN id"
    /\ log[2].report.id_val = WideOf(291)

\* C20: for gear in 0..15, velocity in 0..65535 and angle_raw in
\* -32768..32767 (alive_counter a byte) the encoder of final_convert.py returns
\* 8 bytes with gear in data[0] bits 3..0, the velocity bits in data[2] bits
\* 3..0, data[1], data[0] bits 7..4, the two's-complement angle bits in data[4]
\* bits 3..0, data[3], data[2] bits 7..4, data[4] bits 7..4 zero, data[5] zero
\* and data[6] the alive counter (bytes counted from 0)
C20_BitLayout ==
    (/\ cpc \in {"final_built", "final_error"}
     /\ gear \in 0..15 /\ velocity \in 0..65535 /\ angle_raw \in -32768..32767) =>
        /\ cpc = "final_built"
        /\ ~fromhex(hex_string.value).raised
        /\ LET data == fromhex(hex_string.value).value
           IN  /\ Len(data) = 8
               /\ And(data[1], 15) = gear
               /\ (And(data[3], 15) * 4096) + (data[2] * 16) + Shr(data[1], 4) = velocity
               /\ (And(data[5], 15) * 4096) + (data[4] * 16) + Shr(data[3], 4)
                      = angle_raw % 65536
               /\ Shr(data[5], 4) = 0
               /\ data[6] = 0
               /\ data[7] = alive

\* C20 witness: the encoder has run on the largest velocity and gear and a
\* negative angle, where both nibbles of data[2] are in use
C20_Witness ==
    /\ cpc = "final_built"
    /\ gear = 15 /\ velocity = 65535 /\ angle_raw = -95 /\ alive = 255
    /\ fromhex(hex_string.value).value = <<255, 255, 31, 250, 15, 0, 255, 21>>

\* C21 as stated: for every velocity from 0 to 2^28-1 (those the encoder of
\* reverse_parse.py takes without raising), decoding the built payload returns
\* the angle_raw that was encoded
C21_AngleUndisturbed ==
    (/\ cpc = "parsed"
     /\ velocity \in 0..(Pow2(28) - 1)
     /\ angle_raw \in -32768..32767) =>
        /\ ~result.raised
        /\ result.fields.steering_angle_raw = angle_raw

\* C22: the decoder does not look at bytes 5, 6 and 7: a payload that agrees
\* with a decoded one on bytes 0..4 decodes to the same gear, velocity and
\* angle, whether or not its byte 7 is the XOR of bytes 0..6
C22_TailIgnored ==
    [][ (cpc = "tampered" /\ cpc' = "reparsed") =>
            /\ ~result.raised /\ ~result'.raised
            /\ result'.fields.gear_raw = result.fields.gear_raw
            /\ result'.fields.gear_name = result.fields.gear_name
            /\ result'.fields.linear_velocity_mms = result.fields.linear_velocity_mms
            /\ result'.fields.steering_angle_raw = result.fields.steering_angle_raw ]_vars

\* C22 witness: a payload with the bytes 0..4 of the built one and a byte 7
\* that fails the XOR check has been decoded to the encoded values
C22_Witness ==
    /\ cpc = "reparsed" /\ ~result.raised
    /\ gear = 4 /\ velocity = 3000 /\ angle_raw = -95
    /\ SubSeq(data_bytes, 6, 8) = <<1, 240, 90>>
    /\ data_bytes[8] # XorAll(SubSeq(data_bytes, 1, 7))
    /\ result.fields.gear_raw = 4
    /\ result.fields.linear_velocity_mms = 3000
    /\ result.fields.steering_angle_raw = -95

\* C23: for every 8-byte payload the decoder returns a velocity in 0..65535
\* (at least 32768 when the top bit of the speed field, bit 3 of data[2], is
\* set), an angle_raw in -32768..32767 that is negative exactly when the top
\* bit of the angle field, bit 3 of data[4], is set, and a gear in 0..15
C23_FieldRanges ==
    (cpc \in {"parsed", "parsed_altered", "reparsed"} /\ Len(data_bytes) = 8) =>
        /\ ~result.raised
        /\ result.fields.linear_velocity_mms \in 0..65535
        /\ And(data_bytes[3], 8) # 0 <=> result.fields.linear_velocity_mms >= 32768
        /\ result.fields.steering_angle_raw \in -32768..32767
        /\ And(data_bytes[5], 8) # 0 <=> result.fields.steering_angle_raw < 0
        /\ result.fields.gear_raw \in 0..15

\* C23 witness: a payload with the top bits of the speed and the angle fields
\* set has been decoded
C23_Witness ==
    /\ cpc = "parsed"
    /\ data_bytes[1] = 15 /\ And(data_bytes[3], 8) = 8 /\ And(data_bytes[5], 8) = 8
    /\ result.fields.linear_velocity_mms = 32768
    /\ result.fields.steering_angle_raw = -4096
    /\ result.fields.gear_raw = 15

\* one of the three encoders has been called with gear, velocity, angle_raw
\* and alive, and hex_string is what it returned or that it raised
EncoderCalled ==
    \/ cpc \in {"built", "build_error", "final_built", "final_error", "converted"}
    \/ cpc = "convert_error" /\ Len(data_bytes) = 4

\* C24: build_vehicle_control_data of reverse_parse.py, of data_conversion.py
\* and of final_convert.py agree on every argument list: what one of them
\* returned (the text, or that it raised) is what each of the three returns
C24_EncodersAgree ==
    EncoderCalled =>
        /\ hex_string = build_vehicle_control_data(gear, velocity, angle_raw, alive)
        /\ hex_string = data_conversion_build_vehicle_control_data(gear, velocity, angle_raw, alive)
        /\ hex_string = final_convert_build_vehicle_control_data(gear, velocity, angle_raw, alive)

\* C24 witness: data_conversion.py's encoder has returned the text for the
\* example of its main (gear 4, 3000 mm/s, angle -1426), which is also what the
\* encoder of reverse_parse.py returns
C24_Witness ==
    /\ cpc = "converted" /\ ~hex_string.raised
    /\ gear = 4 /\ velocity = 3000 /\ angle_raw = -1426 /\ alive = 0
    /\ fromhex(hex_string.value).value = <<132, 187, 224, 166, 15, 0, 0, 118>>
    /\ hex_string = build_vehicle_control_data(4, 3000, -1426, 0)

(***************************************************************************)
(* Claims about process_csv_to_can (checked under SpecCsv).                 *)
(***************************************************************************)
\* the alive counter the k-th recorded row carries (k from 1)
AliveOfRow(k) == (ALIVE_COUNTER_STEP * (k - 1)) % 256

\* C25: the heartbeat counter of process_csv_to_can is always a multiple of
\* 16 in 0..240; the k-th row recorded and exported carries 16*(k-1) mod 256,
\* in its AliveCounter_Hex column and in byte 6 of its payload; the counter
\* advances in the step that records a row and in no other, so a skipped row
\* leaves it as it is
C25_Heartbeat ==
    /\ [](/\ csv_alive_counter \in {ALIVE_COUNTER_STEP * k : k \in 0..15}
          /\ csv_alive_counter = AliveOfRow(Len(output_data) + 1)
          /\ \A k \in 1..Len(output_data) :
                /\ output_data[k].AliveCounter_Hex = Hex02X(AliveOfRow(k))
                /\ fromhex(output_data[k].HexData).value[7] = AliveOfRow(k)
          /\ exported.written => exported.rows = output_data)
    /\ [][ /\ csv_alive_counter' # csv_alive_counter
              <=> Len(output_data') = Len(output_data) + 1
           /\ Len(output_data') = Len(output_data) + 1 =>
                 /\ output_data'[Len(output_data')].AliveCounter_Hex = Hex02X(csv_alive_counter)
                 /\ csv_alive_counter' = (csv_alive_counter + ALIVE_COUNTER_STEP) % 256
           /\ Len(warnings') > Len(warnings) => csv_alive_counter' = csv_alive_counter ]_vars

\* C25 witness: a file of 18 rows whose 9th is no number has been exported:
\* 17 rows, the 17th (row 18 of the file) with the counter back at 00
C25_Witness ==
    /\ fpc = "done" /\ exported.written
    /\ Len(csv_rows) = 18 /\ warnings = <<9>>
    /\ Len(exported.rows) = 17
    /\ exported.rows[16].AliveCounter_Hex = <<"F", "0">>
    /\ exported.rows[17].AliveCounter_Hex = <<"0", "0">>
    /\ exported.rows[17].Index = 18

\* C26 as stated: process_csv_to_can never gives up on a file; when it is done,
\* every row that converts and encodes is in the exported file and every other
\* row (no number, negative speed, angle beyond 16 bits) was skipped with a
\* warning
C26_BadRowsSkipped ==
    /\ fpc # "failed"
    /\ fpc = "done" =>
          \A i \in 1..Len(csv_rows) :
              IF csv_rows[i] \in GoodRows
              THEN exported.written /\ \E k \in 1..Len(exported.rows) : exported.rows[k].Index = i
              ELSE \E w \in 1..Len(warnings) : warnings[w] = i

RECURSIVE FrameStarts(_, _)
\* the indices at which the valid frames of st start when st, from index i
\* on, is valid frames one after the other; {0} added when it is not
FrameStarts(st, i) ==
    IF i > Len(st) THEN {}
    ELSE IF ~ValidFrameAt(st, i) THEN {0}
    ELSE {i} \cup FrameStarts(st, i + frame_length(st[i + 1]))

\* receive.py's loop is waiting in ser.read for bytes that do not come
BlockedReceiver ==
    /\ script = "receive.py" /\ mpc = "configured"
    /\ \/ rpc \in {"off", "header"} /\ Len(stream) - pos < 2
       \/ rpc = "body" /\ Len(stream) - pos < len2_of(buffer[2])

\* C27 as stated: when the stream is one byte AB followed by valid frames, the
\* blocking receiver of receive.py, once it has read all it can, has reported
\* the frame right after the AB and every frame after that one
C27_BlockingResync ==
    (/\ BlockedReceiver
     /\ Len(stream) >= 2 /\ stream[1] = 171
     /\ 0 \notin FrameStarts(stream, 2)) =>
        \A i \in FrameStarts(stream, 2) :
            \E k \in 1..Len(log) :
                /\ log[k].at = i - 1
                /\ log[k].report.kind = "Receive CAN id"

(***************************************************************************)
(* Claims about single-loop-test.py (checked under SpecTest).               *)
(***************************************************************************)
\* C28 as stated: receiver_thread prints the RECV line of a frame only when
\* the last byte of the frame body is 55
C28_ReportOnlyWithEnd ==
    \A k \in 1..Len(log) :
        log[k].report.kind = "RECV" => log[k].window[Len(log[k].window)] = 85

(***************************************************************************)
(* Further claims about the buffered receiver (checked under Spec).         *)
(***************************************************************************)
\* C29: whenever custom_receiver has left its inner loop, its buffer holds the
\* last bytes read, at most 21 of them, and is shorter than 2 bytes or starts
\* with AA and a control byte with bits 7..6 set whose frame is not complete
\* yet; the bytes read before it are gone from the buffer
C29_BufferAfterDrain ==
    (script = "loop-c.py" /\ rpc = "idle") =>
        /\ Len(buffer) <= 21
        /\ Len(buffer) <= pos
        /\ buffer = SubSeq(stream, (pos - Len(buffer)) + 1, pos)
        /\ \/ Len(buffer) < 2
           \/ /\ buffer[1] = 170
              /\ And(buffer[2], 192) = 192
              /\ Len(buffer) < frame_length(buffer[2])

\* C29 witness: 21 of the 22 bytes of an extended frame that declares 15 data
\* bytes wait in the buffer and nothing has been handed over
C29_Witness ==
    /\ script = "loop-c.py" /\ rpc = "idle"
    /\ Len(buffer) = 21 /\ buffer[2] = 239
    /\ pos = Len(stream) - 6
    /\ log = <<>>

\* C30: the windows custom_receiver hands to parse_can_frame are slices of the
\* stream, one after the other without overlap, all before the bytes still in
\* the buffer, which are the last bytes read; a step of the inner loop that
\* hands over no window removes nothing or exactly the first buffered byte, and
\* a step that hands one over removes exactly that window.  So every byte read
\* is in one window at most, or was dropped alone, or is still buffered.
C30_DisjointWindows ==
    /\ [](script = "loop-c.py" =>
            /\ Len(buffer) <= pos
            /\ buffer = SubSeq(stream, (pos - Len(buffer)) + 1, pos)
            /\ \A k \in 1..Len(log) :
                  /\ log[k].at >= 0
                  /\ log[k].window = SubSeq(stream, log[k].at + 1,
                                            log[k].at + Len(log[k].window))
                  /\ log[k].at + Len(log[k].window)
                        <= (IF k < Len(log) THEN log[k + 1].at ELSE pos - Len(buffer)))
    /\ [][ (script = "loop-c.py" /\ rpc = "drain") =>
              IF Len(log') = Len(log) + 1
              THEN /\ buffer = log'[Len(log')].window \o buffer'
                   /\ log'[Len(log')].at = pos - Len(buffer)
                   /\ pos' = pos
              ELSE /\ log' = log /\ pos' = pos
                   /\ buffer' = buffer \/ buffer' = Tail(buffer) ]_vars

\* C30 witness: two windows were handed over with one dropped byte between
\* them, the second one when the last byte read completed it
C30_Witness ==
    /\ script = "loop-c.py"
    /\ Len(log) = 2
    /\ log[2].at = log[1].at + Len(log[1].window) + 1
    /\ buffer = <<>>
    /\ pos = log[2].at + Len(log[2].window)

(***************************************************************************)
(* Further claims about test_system_monitor.py (checked under SpecThreads). *)
(***************************************************************************)
\* C31 as stated, in the form a finite run can refute: while stop_event is not
\* set and a packet waits in SEND_QUEUE, serial_writer_thread has not ended
\* (so the packet can still be written), also after a serial error
C31_QueueServed ==
    (~stop_event /\ SEND_QUEUE # <<>>) => tpc["SerialWriter"] # "done"


\* C32: every packet data_generator_thread puts on SEND_QUEUE, from
\* SmoothDataGenerator and from RadarDataGenerator alike, has exactly 20
\* bytes: AA 55 01 01 01, the 13 bytes of the generator (4 bytes of CAN id, one
\* length byte, 8 data bytes, all of them bytes), one reserved 00, and a last
\* byte equal to the sum of the bytes 2..18 (counted from 0) modulo 256.
C32_PacketLayout ==
    \A k \in 1..Len(enqueued) :
        LET p == enqueued[k]
        IN  /\ Len(p) = 20
            /\ SubSeq(p, 1, 5) = <<170, 85, 1, 1, 1>>
            /\ \A i \in 6..18 : p[i] \in 0..255
            /\ \/ SubSeq(p, 6, 10) = <<9, 2, 0, 0, 8>>
               \/ \E radar_id \in 1..4 : SubSeq(p, 6, 10) = <<32 + radar_id, 5, 0, 0, 4>>
            /\ p[19] = 0
            /\ p[20] = SumAll(SubSeq(p, 3, 19)) % 256

\* a packet of SmoothDataGenerator and the packets of radar 1 and radar 2
\* have been put on SEND_QUEUE, and the writer has not ended
C32_Witness ==
    /\ \E k \in 1..Len(enqueued) : enqueued[k][6] = 9
    /\ \E k \in 1..Len(enqueued) : enqueued[k][6] = 33
    /\ \E k \in 1..Len(enqueued) : enqueued[k][6] = 34 /\ enqueued[k][20] = 113
    /\ tpc["SerialWriter"] # "done"


(***************************************************************************)
(* generator.py: a RadarDataGenerator object called again and again.        *)
(* Distances are floats in the code; the model keeps them as whole numbers  *)
(* of 1/DistanceScale, which is exact for the targets it draws: a target is *)
(* the last value plus a whole offset, clamped to 200..1400, and every      *)
(* smoothing step divides by four.                                          *)
(***************************************************************************)
\* how many times generate_data() is called in a run at most
MaxCalls == 6

\* one unit of distance in the model's fixed-point numbers
DistanceScale == 4 ^ (MaxCalls + 1)

\* how far random.gauss(last_val, DISTANCE_STD) lands from last_val
TargetOffsets == {-2000, 0, 50, 2000}

\* round(x, 0) followed by int(), for x = num / den: to the nearest whole
\* number, a tie to the even one
round_int(num, den) ==
    LET floor == num \div den
        twice == 2 * (num % den)
    IN  IF twice < den THEN floor
        ELSE IF twice > den THEN floor + 1
        ELSE IF floor % 2 = 0 THEN floor ELSE floor + 1

\* RadarDataGenerator._get_smooth_distance(index) when random.gauss returns
\* last_val + offset: the new self.last_distances and the returned int
_get_smooth_distance(distances, index, offset) ==
    LET min_dist == 200 * DistanceScale
        max_dist == 1400 * DistanceScale
        last_val == distances[index + 1]
        gauss == last_val + (offset * DistanceScale)
        target_val == IF gauss > max_dist THEN max_dist
                      ELSE IF gauss < min_dist THEN min_dist ELSE gauss
        \* last_val * (1 - 0.25) + target_val * 0.25
        new_val == ((3 * last_val) + target_val) \div 4
    IN  [last_distances |-> [distances EXCEPT ![index + 1] = new_val],
         value |-> round_int(new_val, DistanceScale)]

\* RadarDataGenerator._distance_to_two_bytes: distance.to_bytes(2, 'big')
_distance_to_two_bytes(distance) == <<distance \div 256, distance % 256>>

\* a generate_data that counts the radar number up without wrapping
RadarDataGenerator_generate_data_without_wrap(radar_id, distances, offset) ==
    LET smooth == _get_smooth_distance(distances, radar_id - 1, offset)
        distance_bytes == _distance_to_two_bytes(smooth.value)
    IN  [packet |-> <<32 + radar_id, 5, 0, 0, 4, radar_id, 131,
                      distance_bytes[1], distance_bytes[2], 0, 0, 0, 0>>,
         index |-> radar_id - 1,
         last_distances |-> smooth.last_distances,
         current_radar_id |-> radar_id + 1]

\* RadarDataGenerator.generate_data() of an object whose current_radar_id is
\* radar_id and whose last_distances is distances: the returned packet and
\* the fields of the object afterwards
RadarDataGenerator_generate_data(radar_id, distances, offset) ==
    LET smooth == _get_smooth_distance(distances, radar_id - 1, offset)
        distance_bytes == _distance_to_two_bytes(smooth.value)
    IN  [packet |-> <<32 + radar_id, 5, 0, 0, 4, radar_id, 131,
                      distance_bytes[1], distance_bytes[2], 0, 0, 0, 0>>,
         index |-> radar_id - 1,
         last_distances |-> smooth.last_distances,
         current_radar_id |-> (radar_id % 4) + 1]

\* RadarDataGenerator.__init__
RadarInit ==
    /\ current_radar_id = 1
    /\ last_distances = <<700 * DistanceScale, 750 * DistanceScale,
                          650 * DistanceScale, 800 * DistanceScale>>
    /\ radar_packet = <<>>
    /\ radar_index = 0
    /\ calls = 0
    /\ ReaderIdle /\ ConverterIdle /\ HexIdle
    /\ SessionIdle /\ CodecIdle /\ CsvIdle

\* one call of generate_data()
RadarGenerate ==
    /\ calls < MaxCalls
    /\ \E offset \in TargetOffsets :
          LET r == RadarDataGenerator_generate_data(current_radar_id, last_distances, offset)
          IN  /\ radar_packet' = r.packet
              /\ radar_index' = r.index
              /\ last_distances' = r.last_distances
              /\ current_radar_id' = r.current_radar_id
    /\ calls' = calls + 1
    /\ UNCHANGED <<codecVars, sessionVars, threadVars, csvVars,
                   readerVars, converterVars, hexVars>>

RadarNext == RadarGenerate

SpecRadar == RadarInit /\ [][RadarNext]_vars

\* C33: over any number of calls of RadarDataGenerator.generate_data the
\* radar number stays in 1..4 and runs 1,2,3,4,1,...; the packet of a call
\* has that number as its first data byte and 0x20 plus that number as the
\* low byte of its CAN id (0x5xx), and the call changes no distance slot but
\* the one of that radar.
C33_RadarCycle ==
    /\ [](/\ current_radar_id \in 1..4
          /\ current_radar_id = (calls % 4) + 1
          /\ calls > 0 => /\ radar_packet[6] = ((calls - 1) % 4) + 1
                          /\ radar_index = radar_packet[6] - 1)
    /\ [][ /\ Len(radar_packet') = 13
           /\ radar_packet'[6] = current_radar_id
           /\ SubSeq(radar_packet', 1, 5) = <<32 + current_radar_id, 5, 0, 0, 4>>
           /\ current_radar_id' = IF current_radar_id = 4 THEN 1 ELSE current_radar_id + 1
           /\ \A i \in 1..4 : i # current_radar_id => last_distances'[i] = last_distances[i]
         ]_vars

\* the fifth call is for radar 1 again; its slot has been smoothed twice and
\* now returns 712 (712.5 rounded to even), the other slots once
C33_Witness ==
    /\ calls = 5
    /\ radar_packet = <<33, 5, 0, 0, 4, 1, 131, 2, 200, 0, 0, 0, 0>>
    /\ current_radar_id = 2
    /\ last_distances[1] # 700 * DistanceScale
    /\ last_distances[2] # 750 * DistanceScale


(***************************************************************************)
(* parse_monitor_data.py: the reader loop of the module script and          *)
(* parse_system_monitor_data.  What the function prints is kept as a record *)
(* per call: the error it reported, or the fields it printed.               *)
(***************************************************************************)
\* parse_system_monitor_data(data): the error line, or the printed fields
parse_system_monitor_data(data) ==
    IF Len(data) # 18 THEN [error |-> "length", fields |-> <<>>]
    ELSE IF data[1] # 170 \/ data[2] # 85 THEN [error |-> "header", fields |-> <<>>]
    ELSE [error |-> "none",
          fields |-> [core1_cpu |-> data[3], core2_cpu |-> data[4],
                      core3_cpu |-> data[5], core4_cpu |-> data[6],
                      vm0_mem |-> data[7], vm1_mem |-> data[8],
                      idle_counter |-> data[9] + (256 * data[10]),
                      max_counter |-> data[11] + (256 * data[12]),
                      idle_pct_debug |-> data[13], real_cpu_debug |-> data[14],
                      steering_ctrl |-> data[15], brake_ctrl |-> data[16],
                      body_ctrl |-> data[17], ac_system |-> data[18]]]

\* 18-byte status packets: one as generate_mock_data builds it, one with the
\* counters set and the bytes AA 55 inside its payload
StatusPackets ==
    {<<170, 85, 35, 40, 30, 29, 50, 45, 0, 0, 0, 0, 0, 0, 1, 1, 1, 1>>,
     <<170, 85, 12, 13, 10, 11, 41, 22, 52, 18, 170, 85, 80, 10, 0, 2, 1, 0>>}

\* bytes on the line that belong to no packet
Noise == {<<>>, <<0>>, <<85>>, <<170>>, <<170, 0>>, <<170, 170>>, <<0, 170>>}

\* what the port delivers: up to two packets with noise before each of them,
\* the second one possibly cut short
MonitorStreams ==
    {n1 \o p1 \o n2 \o SubSeq(p2, 1, cut) :
        n1 \in Noise, n2 \in Noise, p1 \in StatusPackets, p2 \in StatusPackets,
        cut \in {0, 10, 18}}

\* arguments of a direct call: packets, packets cut short or with a byte too
\* many, and 18 bytes with a wrong header
DirectInputs ==
    StatusPackets
    \cup {SubSeq(p, 1, n) : p \in StatusPackets, n \in {0, 1, 17}}
    \cup {p \o <<0>> : p \in StatusPackets}
    \cup {<<85>> \o SubSeq(p, 2, 18) : p \in StatusPackets}
    \cup {<<170, 170>> \o SubSeq(p, 3, 18) : p \in StatusPackets}

\* the module script has opened the port, or the function is about to be
\* called on its own (ser_stream is then its argument)
ReaderInit ==
    /\ monpc \in {"byte", "direct"}
    /\ ser_stream \in (IF monpc = "byte" THEN MonitorStreams ELSE DirectInputs)
    /\ ser_pos = 0
    /\ monitor_output = <<>>
    /\ RadarIdle /\ ConverterIdle /\ HexIdle
    /\ SessionIdle /\ CodecIdle /\ CsvIdle

ReaderKeeps ==
    UNCHANGED <<ser_stream, codecVars, sessionVars, threadVars, csvVars,
                radarVars, converterVars, hexVars>>

\* byte = ser.read(1) with a byte on the line; if byte == b'\xAA' the script
\* goes on to read byte2
MonReadByte ==
    /\ monpc = "byte"
    /\ ser_pos < Len(ser_stream)
    /\ ser_pos' = ser_pos + 1
    /\ monpc' = IF ser_stream[ser_pos + 1] = 170 THEN "byte2" ELSE "byte"
    /\ UNCHANGED monitor_output
    /\ ReaderKeeps

\* byte2 = ser.read(1): b'\x55' leads to the payload, any other byte (or none
\* within the timeout) is dropped and the loop starts over
MonReadByte2 ==
    /\ monpc = "byte2"
    /\ ser_pos' = IF ser_pos < Len(ser_stream) THEN ser_pos + 1 ELSE ser_pos
    /\ monpc' = IF ser_pos < Len(ser_stream) /\ ser_stream[ser_pos + 1] = 85
                THEN "payload" ELSE "byte"
    /\ UNCHANGED monitor_output
    /\ ReaderKeeps

\* data_payload = ser.read(16); with 16 bytes the packet is parsed, with fewer
\* (timeout) they are dropped
MonReadPayload ==
    /\ monpc = "payload"
    /\ LET last == IF ser_pos + 16 <= Len(ser_stream) THEN ser_pos + 16 ELSE Len(ser_stream)
           data_payload == SubSeq(ser_stream, ser_pos + 1, last)
           full_data == <<170, 85>> \o data_payload
       IN  /\ ser_pos' = last
           /\ monitor_output' = IF Len(data_payload) = 16
                                THEN Append(monitor_output, parse_system_monitor_data(full_data))
                                ELSE monitor_output
    /\ monpc' = "byte"
    /\ ReaderKeeps

\* parse_system_monitor_data(data) called on its own
MonParse ==
    /\ monpc = "direct"
    /\ monitor_output' = Append(monitor_output, parse_system_monitor_data(ser_stream))
    /\ monpc' = "returned"
    /\ UNCHANGED ser_pos
    /\ ReaderKeeps

ReaderNext == MonReadByte \/ MonReadByte2 \/ MonReadPayload \/ MonParse

SpecReader == ReaderInit /\ [][ReaderNext]_vars

RECURSIVE StatusPacketsFrom(_, _)
\* the 18-byte packets starting with AA 55 in the stream s from position i
\* on, read from left to right without overlap
StatusPacketsFrom(s, i) ==
    IF i + 17 > Len(s) THEN <<>>
    ELSE IF s[i] = 170 /\ s[i + 1] = 85
         THEN <<SubSeq(s, i, i + 17)>> \o StatusPacketsFrom(s, i + 18)
    ELSE StatusPacketsFrom(s, i + 1)

\* C34 as stated: once the reader has taken every byte of the stream it has
\* parsed each 18-byte packet starting with AA 55, one output with fields per
\* packet, also a packet right after a stray AA; and a call of
\* parse_system_monitor_data prints fields exactly when its input has 18 bytes
\* starting with AA 55, and an error without fields otherwise
C34_EveryPacketParsed ==
    /\ (monpc = "byte" /\ ser_pos = Len(ser_stream)) =>
          LET packets == StatusPacketsFrom(ser_stream, 1)
          IN  monitor_output = [k \in 1..Len(packets) |-> parse_system_monitor_data(packets[k])]
    /\ monpc = "returned" =>
          LET ok == Len(ser_stream) = 18 /\ ser_stream[1] = 170 /\ ser_stream[2] = 85
              out == monitor_output[1]
          IN  IF ok THEN out.error = "none" /\ out.fields # <<>>
              ELSE out.error # "none" /\ out.fields = <<>>


(***************************************************************************)
(* test_converter.py and parse_old.py: the legacy 4-byte control data.      *)
(* steering_angle_rad is a float in the code; the model draws it from the   *)
(* multiples of 1/2048 rad, for which steering_angle_rad * 1000 is exact in *)
(* a double, and keeps the numerator.  The angle parse_control_data_4byte   *)
(* returns, steering_angle_raw / 1000.0, is kept as its numerator.          *)
(***************************************************************************)
\* a generate_control_data_hex that cuts the fraction off, int(x) for
\* int(round(x))
generate_control_data_hex_truncating(linear_velocity_mms, angle_2048) ==
    LET v == IF linear_velocity_mms > 32767 THEN 32767
             ELSE IF linear_velocity_mms < -32768 THEN -32768 ELSE linear_velocity_mms
        x == 1000 * angle_2048
        rounded == IF x >= 0 THEN x \div 2048 ELSE -((-x) \div 2048)
        steering_angle_raw == IF rounded > 32767 THEN 32767
                              ELSE IF rounded < -32768 THEN -32768 ELSE rounded
    IN  HexUpper(pack_h(v).value \o pack_h(steering_angle_raw).value)

\* test_converter.py generate_control_data_hex(linear_velocity_mms,
\* steering_angle_rad) for steering_angle_rad = angle_2048 / 2048
generate_control_data_hex(linear_velocity_mms, angle_2048) ==
    LET v == IF linear_velocity_mms > 32767 THEN 32767
             ELSE IF linear_velocity_mms < -32768 THEN -32768 ELSE linear_velocity_mms
        rounded == round_int(1000 * angle_2048, 2048)
        steering_angle_raw == IF rounded > 32767 THEN 32767
                              ELSE IF rounded < -32768 THEN -32768 ELSE rounded
    IN  HexUpper(pack_h(v).value \o pack_h(steering_angle_raw).value)

\* parse_old.py parse_control_data_4byte(b): ValueError unless b has 4 bytes,
\* else the velocity and the angle (here times 1000)
parse_old_parse_control_data_4byte(b) ==
    IF Len(b) # 4
    THEN [raised |-> TRUE, linear_velocity_mms |-> 0, steering_angle_mrad |-> 0]
    ELSE [raised |-> FALSE,
          linear_velocity_mms |-> unpack_h(b[1], b[2]),
          steering_angle_mrad |-> unpack_h(b[3], b[4])]

\* velocities around the ends of the short range, and the one of main()
ConvVelocities == {-70000, -32769, -32768, -32767, -1, 0, 1, 1600, 32767, 32768, 70000}

\* angles in 1/2048 rad: ties of the rounding (62.5, 187.5, -62.5), about
\* -0.805 rad as in main(), 999.51 mrad, and both ends of the short range
ConvAngles == {-70000, -67110, -67109, -1649, -128, -1, 0, 1, 128, 384, 2047, 2048,
               67107, 67108, 70000}

\* byte strings handed to parse_control_data_4byte that did not come from
\* generate_control_data_hex
ConvRawInputs ==
    {<<>>, <<6, 64>>, <<6, 64, 252>>, <<6, 64, 252, 219>>, <<6, 64, 252, 219, 0>>,
     <<4, 100, 192, 223, 14, 0, 0, 113>>}

\* main() is about to run, or parse_control_data_4byte is about to be called
\* with bytes of its own
ConverterInit ==
    /\ convpc \in {"start", "raw"}
    /\ conv_velocity \in (IF convpc = "start" THEN ConvVelocities ELSE {0})
    /\ conv_angle \in (IF convpc = "start" THEN ConvAngles ELSE {0})
    /\ conv_bytes \in (IF convpc = "start" THEN {<<>>} ELSE ConvRawInputs)
    /\ conv_hex = <<>>
    /\ conv_res = <<>>
    /\ RadarIdle /\ ReaderIdle /\ HexIdle
    /\ SessionIdle /\ CodecIdle /\ CsvIdle

ConverterKeeps ==
    UNCHANGED <<conv_velocity, conv_angle, codecVars, sessionVars, threadVars, csvVars,
                radarVars, readerVars, hexVars>>

\* main(): hex_str = generate_control_data_hex(...)
ConvGenerate ==
    /\ convpc = "start"
    /\ conv_hex' = generate_control_data_hex(conv_velocity, conv_angle)
    /\ convpc' = "generated"
    /\ UNCHANGED <<conv_bytes, conv_res>>
    /\ ConverterKeeps

\* main(): res = parse_control_data_4byte(bytes.fromhex(hex_str))
ConvParse ==
    /\ convpc = "generated"
    /\ conv_bytes' = fromhex(conv_hex).value
    /\ conv_res' = parse_old_parse_control_data_4byte(fromhex(conv_hex).value)
    /\ convpc' = "parsed"
    /\ UNCHANGED conv_hex
    /\ ConverterKeeps

\* parse_control_data_4byte called with bytes of any length
ConvParseRaw ==
    /\ convpc = "raw"
    /\ conv_res' = parse_old_parse_control_data_4byte(conv_bytes)
    /\ convpc' = "raw_parsed"
    /\ UNCHANGED <<conv_hex, conv_bytes>>
    /\ ConverterKeeps

ConverterNext == ConvGenerate \/ ConvParse \/ ConvParseRaw

SpecConverter == ConverterInit /\ [][ConverterNext]_vars

\* x brought into the range of a signed short
Saturated(x) == IF x > 32767 THEN 32767 ELSE IF x < -32768 THEN -32768 ELSE x

None == [none |-> TRUE, value |-> <<>>]

\* str.upper() on the characters the model uses
upper(text) ==
    LET lower_letters == <<"a", "b", "c", "d", "e", "f", "n", "o", "x">>
        upper_letters == <<"A", "B", "C", "D", "E", "F", "N", "O", "X">>
    IN  [i \in 1..Len(text) |->
            IF \E j \in 1..9 : lower_letters[j] = text[i]
            THEN upper_letters[CHOOSE j \in 1..9 : lower_letters[j] = text[i]]
            ELSE text[i]]

RECURSIVE strip(_)
\* str.strip(): blanks at both ends removed
strip(text) ==
    IF text = <<>> THEN <<>>
    ELSE IF text[1] = " " THEN strip(Tail(text))
    ELSE IF text[Len(text)] = " " THEN strip(SubSeq(text, 1, Len(text) - 1))
    ELSE text

RECURSIVE int_16(_)
\* int(text, 16) for a text of hexadecimal digits; ValueError for an empty
\* text or another character
int_16(text) ==
    IF text = <<>> THEN [raised |-> TRUE, value |-> 0]
    ELSE IF HexValue(text[Len(text)]) < 0 THEN [raised |-> TRUE, value |-> 0]
    ELSE IF Len(text) = 1 THEN [raised |-> FALSE, value |-> HexValue(text[1])]
    ELSE LET front == int_16(SubSeq(text, 1, Len(text) - 1))
         IN  IF front.raised THEN front
             ELSE [raised |-> FALSE, value |-> (16 * front.value) + HexValue(text[Len(text)])]

RECURSIVE format_0X(_, _)
\* f"{n:0{width}X}" for n >= 0: upper-case digits, zeros in front up to width
format_0X(n, width) ==
    IF n < 16 /\ width <= 1 THEN <<HexDigits[n + 1]>>
    ELSE format_0X(n \div 16, width - 1) \o <<HexDigits[(n % 16) + 1]>>

\* a hex_dec_converter that takes the sign bit from one place too high
hex_dec_converter_late_sign(value, target_type, signed, bit_width) ==
    LET max_unsigned == 2 ^ bit_width
        max_signed == (2 ^ (bit_width - 1)) - 1
        min_signed == -(2 ^ (bit_width - 1))
    IN  IF target_type = "dec"
        THEN LET stripped == upper(strip(value))
                 hex_str == IF Len(stripped) >= 2 /\ SubSeq(stripped, 1, 2) = <<"0", "X">>
                            THEN SubSeq(stripped, 3, Len(stripped)) ELSE stripped
                 unsigned_val == int_16(hex_str)
             IN  IF unsigned_val.raised THEN None
                 ELSE IF ~signed THEN [none |-> FALSE, value |-> unsigned_val.value]
                 ELSE IF unsigned_val.value > max_signed + 1
                      THEN [none |-> FALSE, value |-> unsigned_val.value - max_unsigned]
                 ELSE [none |-> FALSE, value |-> unsigned_val.value]
        ELSE IF target_type = "hex"
        THEN LET dec_val == value
             IN  IF ~signed
                 THEN IF dec_val < 0 \/ dec_val >= max_unsigned THEN None
                      ELSE [none |-> FALSE, value |-> format_0X(dec_val, bit_width \div 4)]
                 ELSE IF dec_val < min_signed \/ dec_val > max_signed THEN None
                 ELSE LET val_to_convert == IF dec_val >= 0 THEN dec_val
                                            ELSE max_unsigned + dec_val
                      IN  [none |-> FALSE, value |-> format_0X(val_to_convert, bit_width \div 4)]
        ELSE None

\* hex_converter.py hex_dec_converter(value, target_type, signed, bit_width);
\* value is an int for target_type 'hex' and a text for 'dec'
hex_dec_converter(value, target_type, signed, bit_width) ==
    LET max_unsigned == 2 ^ bit_width
        max_signed == (2 ^ (bit_width - 1)) - 1
        min_signed == -(2 ^ (bit_width - 1))
    IN  IF target_type = "dec"
        THEN LET stripped == upper(strip(value))
                 hex_str == IF Len(stripped) >= 2 /\ SubSeq(stripped, 1, 2) = <<"0", "X">>
                            THEN SubSeq(stripped, 3, Len(stripped)) ELSE stripped
                 unsigned_val == int_16(hex_str)
             IN  IF unsigned_val.raised THEN None
                 ELSE IF ~signed THEN [none |-> FALSE, value |-> unsigned_val.value]
                 ELSE IF unsigned_val.value > max_signed
                      THEN [none |-> FALSE, value |-> unsigned_val.value - max_unsigned]
                 ELSE [none |-> FALSE, value |-> unsigned_val.value]
        ELSE IF target_type = "hex"
        THEN LET dec_val == value
             IN  IF ~signed
                 THEN IF dec_val < 0 \/ dec_val >= max_unsigned THEN None
                      ELSE [none |-> FALSE, value |-> format_0X(dec_val, bit_width \div 4)]
                 ELSE IF dec_val < min_signed \/ dec_val > max_signed THEN None
                 ELSE LET val_to_convert == IF dec_val >= 0 THEN dec_val
                                            ELSE max_unsigned + dec_val
                      IN  [none |-> FALSE, value |-> format_0X(val_to_convert, bit_width \div 4)]
        ELSE None

\* the bit widths the conversion is run with: the 16 of the module script and
\* of the default, and smaller ones, one of them no multiple of four
HxBitWidths == {4, 8, 10, 16}

\* the decimal values for bit width w: the whole signed range, the two values
\* next to it on either side, and two far outside
HxValues(w) == ((-(2 ^ (w - 1))) - 2)..((2 ^ (w - 1)) + 1) \cup {-70000, 70000}

\* str(x) of the result handed on to the next call
str_of(res) == IF res.none THEN <<"N", "o", "n", "e">> ELSE res.value

\* a decimal value is about to be converted to hex and back, signed
HexInit ==
    /\ hx_bit_width \in HxBitWidths
    /\ hx_value \in HxValues(hx_bit_width)
    /\ hx_hex = <<>>
    /\ hx_dec = <<>>
    /\ hxpc = "start"
    /\ RadarIdle /\ ReaderIdle /\ ConverterIdle
    /\ SessionIdle /\ CodecIdle /\ CsvIdle

HexKeeps ==
    UNCHANGED <<hx_value, hx_bit_width, codecVars, sessionVars, threadVars, csvVars,
                radarVars, readerVars, converterVars>>

\* hex_dec_converter(value, target_type='hex', signed=True, bit_width=w)
HxToHex ==
    /\ hxpc = "start"
    /\ hx_hex' = hex_dec_converter(hx_value, "hex", TRUE, hx_bit_width)
    /\ hxpc' = "hex"
    /\ UNCHANGED hx_dec
    /\ HexKeeps

\* hex_dec_converter(that result, target_type='dec', signed=True, bit_width=w)
HxToDec ==
    /\ hxpc = "hex"
    /\ hx_dec' = hex_dec_converter(str_of(hx_hex), "dec", TRUE, hx_bit_width)
    /\ hxpc' = "dec"
    /\ UNCHANGED hx_hex
    /\ HexKeeps

HexNext == HxToHex \/ HxToDec

SpecHex == HexInit /\ [][HexNext]_vars

\* hx_value fits a signed number of hx_bit_width bits
HxInRange ==
    /\ hx_value >= -(2 ^ (hx_bit_width - 1))
    /\ hx_value <= (2 ^ (hx_bit_width - 1)) - 1

\* C36: in signed mode, for each bit width w and each integer v in
\* [-2^(w-1), 2^(w-1)-1], hex_dec_converter turns v into a hex string and
\* that string back into v; for v outside the range the conversion to hex
\* returns None and no hex string.
C36_SignedRoundTrip ==
    /\ hxpc \in {"hex", "dec"} =>
          IF HxInRange
          THEN /\ ~hx_hex.none
               /\ Len(hx_hex.value) >= hx_bit_width \div 4
               /\ \A i \in 1..Len(hx_hex.value) : HexValue(hx_hex.value[i]) >= 0
          ELSE hx_hex = None
    /\ (hxpc = "dec" /\ HxInRange) => (~hx_dec.none /\ hx_dec.value = hx_value)

\* -2500 in 16 bits has gone to F63C and back, as in the module script
C36_Witness ==
    /\ hxpc = "dec"
    /\ hx_bit_width = 16 /\ hx_value = -2500
    /\ hx_hex = [none |-> FALSE, value |-> <<"F", "6", "3", "C">>]
    /\ hx_dec = [none |-> FALSE, value |-> -2500]
====
